---- MODULE Spec2Model ----
(***************************************************************************)
(* TalkyTalk: the frame pipeline (talkytalk/core/pipeline.py), its frame   *)
(* buffer (talkytalk/core/stream.py), the packet type                      *)
(* (talkytalk/core/packet.py) and the drivers that iterate a source        *)
(* (Pipeline.run / run_sync / run_async, BenchmarkSuite.run).              *)
(*                                                                         *)
(* Probabilities are integers in hundredths (0.5 is 50); times are ms.     *)
(* Analyzers and predictors are the registered components; what a          *)
(* component computes from the audio is an input of the frame, drawn from  *)
(* a small set, and so is whether it raises.                               *)
(***************************************************************************)
EXTENDS Integers, Sequences, FiniteSets, TLC

VARIABLES
    pipeline,   \* the Pipeline object: its attributes
    driver,     \* which driver is iterating a source, "none" when idle
    pc,         \* position of the driver: "idle", "created", "loop"
    source,     \* the source being iterated: length, frames pulled, closed
    run,        \* what has happened in the current / last run
    delivered,  \* packets handed to the consumer of the driver
    nframes,    \* frames handed out so far (all runs and direct calls)
    last,       \* the most recent operation and what it did
    unit,       \* the object exercised on its own: "none", "buffer", "source", ...
    inst,       \* that object: its attributes
    twin,       \* a freshly constructed object of the same kind and parameters
    phase,      \* "idle", "history" (before a reset), "replay" (after it)
    clock,      \* timestamp_ms of the latest frame handed to the object
    obs         \* what the object's latest operation did

pipevars == <<pipeline, driver, pc, source, run, delivered, nframes, last>>
unitvars == <<unit, inst, twin, phase, clock, obs>>
vars == <<pipeline, driver, pc, source, run, delivered, nframes, last,
          unit, inst, twin, phase, clock, obs>>

----------------------------------------------------------------------------
(* Bounds of the exploration *)

MaxFrames == 3
MaxRunFrames == 4
MaxSourceLen == 3
MaxCallbacks == 2
MaxPushes == 4
MaxUnitFrames == 4

(* Program constants *)

frame_duration_ms == 20
DefaultMaxFrames == 50

(* Configurations explored: PipelineConfig is chosen by the caller *)

EmitIntervals == {0, 40}
MinConfidences == {0, 50}
BufferDurations == {40}

AnalyzerPool == <<"vad", "emotion">>
PredictorPool == <<"intent", "timing">>
\* the names under which the provided analyzers publish their results
AnalyzerNames == {"vad", "prosody", "emotion", "language"}
PredictorNames == {PredictorPool[i] : i \in 1..Len(PredictorPool)}

----------------------------------------------------------------------------
(* Plain data: core/packet.py, core/stream.py, analyzers/base.py *)

Min(a, b) == IF a < b THEN a ELSE b
Max(a, b) == IF a > b THEN a ELSE b
\* a clamp that only caps
Clamp01Upper(x) == Min(100, x)
\* max(0.0, min(1.0, x))
Clamp01(x) == Max(0, Min(100, x))

\* Emotion(arousal, valence) with the clamping of __post_init__
Emotion(arousal, valence) == [arousal |-> Clamp01(arousal), valence |-> Clamp01(valence)]

\* a quadrant whose thresholds are strict
quadrant_strict(e) ==
    IF e.arousal > 50
    THEN (IF e.valence > 50 THEN "tense_positive" ELSE "tense_negative")
    ELSE (IF e.valence > 50 THEN "calm_positive" ELSE "calm_negative")

\* Emotion.quadrant
quadrant(e) ==
    IF e.arousal >= 50
    THEN (IF e.valence >= 50 THEN "tense_positive" ELSE "tense_negative")
    ELSE (IF e.valence >= 50 THEN "calm_positive" ELSE "calm_negative")

\* Timing(...) with the clamping of __post_init__
Timing(user_paused, interrupt_safe, speech_likelihood, silence_duration_ms) ==
    [user_paused |-> user_paused, interrupt_safe |-> interrupt_safe,
     speech_likelihood |-> Clamp01(speech_likelihood),
     silence_duration_ms |-> silence_duration_ms]

\* AudioFrame: the fields the pipeline reads
AudioFrame(frame_id, timestamp_ms) == [frame_id |-> frame_id, timestamp_ms |-> timestamp_ms]

\* the i-th frame of a source: frame_id i, timestamp advancing by the frame duration
SourceFrame(i) == AudioFrame(i, i * frame_duration_ms)

NoResult == [analyzer_name |-> "none"]

AnalysisResult(name, frame, data) ==
    [analyzer_name |-> name, frame_id |-> frame.frame_id,
     timestamp_ms |-> frame.timestamp_ms, data |-> data]

\* PipelineState.__init__
PipelineState ==
    [current_intent |-> "unknown", intent_confidence |-> 0,
     language |-> "unknown", target_language |-> "None",
     emotion |-> Emotion(50, 50), timing |-> Timing(FALSE, FALSE, 100, 0),
     last_speech_frame_id |-> 0, speech_active |-> FALSE,
     analysis_results |-> [n \in AnalyzerNames |-> NoResult]]

\* the keys present in the analysis_results dict
Published(st) == {n \in AnalyzerNames : st.analysis_results[n] # NoResult}

----------------------------------------------------------------------------
(* FrameBuffer: core/stream.py *)

\* an eviction that pops the newest frame (pop() for pop(0))
RECURSIVE EvictCountNewest(_, _)
EvictCountNewest(frames, max_frames) ==
    IF Len(frames) > max_frames
    THEN EvictCountNewest(SubSeq(frames, 1, Len(frames) - 1), max_frames)
    ELSE frames

\* FrameBuffer._evict: the count bound
RECURSIVE EvictCount(_, _)
EvictCount(frames, max_frames) ==
    IF Len(frames) > max_frames THEN EvictCount(Tail(frames), max_frames) ELSE frames

RECURSIVE EvictDuration(_, _, _)
EvictDuration(frames, latest, max_duration_ms) ==
    IF frames # <<>> /\ (latest - frames[1].timestamp_ms) > max_duration_ms
    THEN EvictDuration(Tail(frames), latest, max_duration_ms)
    ELSE frames

\* FrameBuffer._evict
Evict(frames, max_frames, max_duration_ms) ==
    LET byCount == EvictCount(frames, max_frames)
    IN  IF Len(byCount) > 1
        THEN EvictDuration(byCount, byCount[Len(byCount)].timestamp_ms, max_duration_ms)
        ELSE byCount

\* FrameBuffer.push
Push(frames, frame, max_frames, max_duration_ms) ==
    Evict(Append(frames, frame), max_frames, max_duration_ms)

----------------------------------------------------------------------------
(* Pipeline.__init__ *)

PipelineInit(cfg) ==
    [config |-> cfg, analyzers |-> <<>>, predictors |-> <<>>, callbacks |-> <<>>,
     buffer |-> <<>>, state |-> PipelineState, running |-> FALSE, last_emit_ms |-> 0]

Configs ==
    [emit_interval_ms : EmitIntervals, min_confidence_to_emit : MinConfidences,
     buffer_duration_ms : BufferDurations]

----------------------------------------------------------------------------
(* The components: what a registered analyzer or predictor does on a frame *)

\* inputs of a frame: per analyzer, whether analyze() raises and else its payload
NoData == [none |-> TRUE]
AnalyzerData(n) ==
    IF n = "vad" THEN {[is_speech |-> b] : b \in BOOLEAN}
    ELSE {[arousal |-> 80, valence |-> 50]}
AnalyzeOutcomes(n) ==
    {[raises |-> TRUE, data |-> NoData]} \cup {[raises |-> FALSE, data |-> d] : d \in AnalyzerData(n)}

\* inputs of a frame: per predictor, where predict() raises ("no", "before" any
\* write to the state, "mid" way through its writes) and what it computes
IntentOutputs == {<<"unknown", 0>>, <<"query", 50>>}
MidWrite == <<"command", 100>>
\* the Timing a TimingPredictor computes, by the speech flag it reads from the vad
\* result: that of a speech frame, that of a frame of silence
TimingOutputs == [b \in BOOLEAN |-> Timing(FALSE, FALSE, IF b THEN 100 ELSE 0, 0)]
PredictOutcomes(n) ==
    IF n = "intent"
    THEN {[raises |-> "no", intent |-> o[1], confidence |-> o[2]] : o \in IntentOutputs}
         \cup {[raises |-> "mid", intent |-> MidWrite[1], confidence |-> MidWrite[2]],
               [raises |-> "before", intent |-> "unknown", confidence |-> 0]}
    ELSE {[raises |-> r, intent |-> "unknown", confidence |-> 0, timing |-> TimingOutputs] :
              r \in {"no", "before"}}

IsSpeech(st) ==
    IF st.analysis_results["vad"] # NoResult
    THEN st.analysis_results["vad"].data.is_speech
    ELSE FALSE

\* IntentPredictor.predict: writes intent and confidence, then copies the language
\* result and the emotion result
IntentPredict(st, o) ==
    LET s1 == [st EXCEPT !.current_intent = o.intent, !.intent_confidence = o.confidence]
        lr == st.analysis_results["language"]
        er == st.analysis_results["emotion"]
        s2 == IF lr # NoResult THEN [s1 EXCEPT !.language = lr.data.language] ELSE s1
    IN  IF o.raises = "before" THEN st
        ELSE IF o.raises = "mid" THEN s1
        ELSE IF er # NoResult
             THEN [s2 EXCEPT !.emotion = Emotion(er.data.arousal, er.data.valence)]
             ELSE s2

\* TimingPredictor.predict: marks speech_active on a speech frame, then writes the
\* Timing it computed
TimingPredict(st, o) ==
    LET s1 == IF IsSpeech(st) THEN [st EXCEPT !.speech_active = TRUE] ELSE st
    IN  IF o.raises = "before" THEN st
        ELSE [s1 EXCEPT !.timing = o.timing[IsSpeech(st)]]

\* a timing predictor that copies the language result as well
PredictTimingCopies(n, st, o) ==
    IF n = "intent" THEN IntentPredict(st, o)
    ELSE [TimingPredict(st, o) EXCEPT
             !.language = IF st.analysis_results["language"] # NoResult
                          THEN st.analysis_results["language"].data.language ELSE @]

\* predictor.predict(context, self._state) of the registered predictor named n
Predict(n, st, o) ==
    IF n = "intent" THEN IntentPredict(st, o) ELSE TimingPredict(st, o)

----------------------------------------------------------------------------
(* PipelineState.to_packet and IntentPacket *)

\* the fields the IntentPacket dataclass declares
IntentPacketFields ==
    {"intent", "confidence", "language", "target_language", "emotion", "timing",
     "frame_id", "timestamp_ms"}

NoPacket == [frame_id |-> -1, timestamp_ms |-> -1]

\* IntentPacket(**kwargs): the generated __init__ accepts the declared fields only
\* (TypeError on any other keyword); __post_init__ clamps the confidence
IntentPacketNew(kwargs) ==
    IF DOMAIN kwargs \subseteq IntentPacketFields
    THEN [ok |-> TRUE, packet |-> [kwargs EXCEPT !.confidence = Clamp01(@)]]
    ELSE [ok |-> FALSE, packet |-> NoPacket]

\* an actionable test that admits a confidence of exactly 0.6
is_actionable_inclusive(packet) == packet.confidence >= 60 /\ packet.intent # "unknown"

\* IntentPacket.is_actionable
is_actionable(packet) == packet.confidence > 60 /\ packet.intent # "unknown"

\* PipelineState.to_packet: the keywords it passes to IntentPacket
to_packet(st, frame_id, timestamp_ms) ==
    IntentPacketNew(
        [intent |-> st.current_intent, confidence |-> st.intent_confidence,
         language |-> st.language, target_language |-> st.target_language,
         emotion |-> st.emotion, timing |-> st.timing,
         frame_id |-> frame_id, timestamp_ms |-> timestamp_ms,
         analysis_results |-> [k \in Published(st) |-> st.analysis_results[k].data]])

----------------------------------------------------------------------------
(* Pipeline.process_frame *)

\* an analyzer loop that a raising analyzer ends (one try around the whole loop)
RECURSIVE RunAnalyzersAbort(_, _, _, _)
RunAnalyzersAbort(as, results, frame, a) ==
    IF as = <<>> \/ a[Head(as)].raises THEN results
    ELSE RunAnalyzersAbort(Tail(as),
             [results EXCEPT ![Head(as)] = AnalysisResult(Head(as), frame, a[Head(as)].data)],
             frame, a)

\* the analyzer loop: a result is stored only when analyze() returns
RECURSIVE RunAnalyzers(_, _, _, _)
RunAnalyzers(as, results, frame, a) ==
    IF as = <<>> THEN results
    ELSE LET n == Head(as)
         IN  RunAnalyzers(Tail(as),
                 IF a[n].raises THEN results
                 ELSE [results EXCEPT ![n] = AnalysisResult(n, frame, a[n].data)],
                 frame, a)

\* the predictor loop: each predictor works on the state the previous one left
RECURSIVE RunPredictors(_, _, _)
RunPredictors(ps, st, p) ==
    IF ps = <<>> THEN st
    ELSE RunPredictors(Tail(ps), Predict(Head(ps), st, p[Head(ps)]), p)

\* the callback loop: in registration order, ended by the first callback that raises
RECURSIVE InvokeCallbacks(_, _)
InvokeCallbacks(cbs, cb) ==
    IF cbs = <<>> THEN [invoked |-> <<>>, raised |-> FALSE, stop |-> FALSE]
    ELSE LET c == Head(cbs)
             rest == InvokeCallbacks(Tail(cbs), cb)
         IN  IF cb[c] = "raise"
             THEN [invoked |-> <<c>>, raised |-> TRUE, stop |-> FALSE]
             ELSE [invoked |-> <<c>> \o rest.invoked, raised |-> rest.raised,
                   stop |-> (cb[c] = "stop") \/ rest.stop]

\* the emit gate
should_emit(self, frame, st) ==
    /\ (frame.timestamp_ms - self.last_emit_ms) >= self.config.emit_interval_ms
    /\ st.intent_confidence >= self.config.min_confidence_to_emit

\* process_frame(frame) with the frame's inputs inp: the pipeline it leaves and what
\* the call does ("none": returns None, "packet": returns the packet, "raised")
process_frame(self, frame, inp) ==
    LET buf   == Push(self.buffer, frame, DefaultMaxFrames, self.config.buffer_duration_ms)
        res   == RunAnalyzers(self.analyzers, self.state.analysis_results, frame, inp.a)
        st    == RunPredictors(self.predictors,
                               [self.state EXCEPT !.analysis_results = res], inp.p)
        gate  == should_emit(self, frame, st)
        built == to_packet(st, frame.frame_id, frame.timestamp_ms)
        calls == InvokeCallbacks(self.callbacks, inp.cb)
        ran   == gate /\ built.ok
        s1    == [self EXCEPT !.buffer = buf, !.state = st,
                              !.running = IF inp.stop_during THEN FALSE ELSE @]
        s2    == IF gate THEN [s1 EXCEPT !.last_emit_ms = frame.timestamp_ms] ELSE s1
        s3    == IF ran /\ calls.stop THEN [s2 EXCEPT !.running = FALSE] ELSE s2
    IN  [self |-> s3,
         gate |-> gate,
         ret |-> IF ~gate THEN "none"
                 ELSE IF ~built.ok \/ calls.raised THEN "raised" ELSE "packet",
         exc |-> IF gate /\ ~built.ok THEN "TypeError"
                 ELSE IF gate /\ calls.raised THEN "callback" ELSE "none",
         packet |-> IF ran THEN built.packet ELSE NoPacket,
         invoked |-> IF ran THEN calls.invoked ELSE <<>>,
         stopped |-> inp.stop_during \/ (ran /\ calls.stop)]

NoFrame == AudioFrame(-1, -1)

NoLast ==
    [op |-> "none", frame |-> NoFrame, gate |-> FALSE, outcome |-> "none",
     registered |-> <<>>, invoked |-> <<>>, a_raised |-> {}, p_raised |-> {}, p_partial |-> {},
     stop_during |-> FALSE, dirty |-> FALSE]

NoRun == [stop_seen |-> FALSE, pulled_after_stop |-> 0, processed_after_stop |-> 0,
          ended |-> "none"]

NoSource == [len |-> 0, pos |-> 0, closed |-> FALSE]

\* no object is being exercised on its own
NoInst == [kind |-> "none"]
NoObs == [op |-> "none"]
UnitIdle ==
    /\ unit = "none"
    /\ inst = NoInst
    /\ twin = NoInst
    /\ phase = "idle"
    /\ clock = 0
    /\ obs = NoObs

Init ==
    /\ UnitIdle
    /\ pipeline \in {PipelineInit(cfg) : cfg \in Configs}
    /\ driver = "none"
    /\ pc = "idle"
    /\ source = NoSource
    /\ run = NoRun
    /\ delivered = <<>>
    /\ nframes = 0
    /\ last = NoLast

----------------------------------------------------------------------------
(* The inputs of one frame *)

Registered(seq) == {seq[i] : i \in 1..Len(seq)}

CallbackBehaviours == [1..MaxCallbacks -> {"return", "raise", "stop"}]
AllReturn == [c \in 1..MaxCallbacks |-> "return"]

Skipped == [raises |-> TRUE, data |-> NoData]
NotRun == [raises |-> "before", intent |-> "unknown", confidence |-> 0, timing |-> TimingOutputs]

\* the inputs of the components that are registered on this pipeline: any
\* analyzer and any predictor may raise on the frame
FrameInputs(self) ==
    {[a |-> [n \in AnalyzerNames |->
               IF n = "vad" THEN av ELSE IF n = "emotion" THEN ae ELSE Skipped],
      p |-> [n \in PredictorNames |-> IF n = "intent" THEN pi ELSE pt],
      stop_during |-> FALSE, cb |-> AllReturn] :
        av \in (IF "vad" \in Registered(self.analyzers) THEN AnalyzeOutcomes("vad") ELSE {Skipped}),
        ae \in (IF "emotion" \in Registered(self.analyzers) THEN AnalyzeOutcomes("emotion") ELSE {Skipped}),
        pi \in (IF "intent" \in Registered(self.predictors) THEN PredictOutcomes("intent") ELSE {NotRun}),
        pt \in (IF "timing" \in Registered(self.predictors) THEN PredictOutcomes("timing") ELSE {NotRun})}

\* the inputs of a frame a driver feeds: the components return, and stop() may be
\* called while the frame is in progress (by a component or by another thread)
RunInputs(self) ==
    {[a |-> [n \in AnalyzerNames |->
               IF n \in Registered(self.analyzers)
               THEN [raises |-> FALSE, data |-> CHOOSE d \in AnalyzerData(n) : TRUE]
               ELSE Skipped],
      p |-> [n \in PredictorNames |-> IF n = "intent" THEN pi ELSE pt],
      stop_during |-> sd, cb |-> AllReturn] :
        pi \in (IF "intent" \in Registered(self.predictors)
                THEN {o \in PredictOutcomes("intent") : o.raises = "no"} ELSE {NotRun}),
        pt \in (IF "timing" \in Registered(self.predictors)
                THEN {o \in PredictOutcomes("timing") : o.raises = "no"} ELSE {NotRun}),
        sd \in BOOLEAN}

\* what the callbacks do matters only on a frame that reaches the callback loop
CallbackInputs(self, frame, inp) ==
    IF self.callbacks = <<>> THEN {AllReturn}
    ELSE LET probe == process_frame(self, frame, inp)
         IN  IF probe.gate /\ probe.exc # "TypeError" THEN CallbackBehaviours ELSE {AllReturn}

\* the record of a process_frame call
LastCall(self, frame, inp, r) ==
    [op |-> "process_frame", frame |-> frame, gate |-> r.gate, outcome |-> r.ret,
     registered |-> self.callbacks, invoked |-> r.invoked,
     a_raised |-> {n \in Registered(self.analyzers) : inp.a[n].raises},
     p_raised |-> {n \in Registered(self.predictors) : inp.p[n].raises # "no"},
     p_partial |-> {n \in Registered(self.predictors) : inp.p[n].raises = "mid"},
     stop_during |-> r.stopped, dirty |-> FALSE]

----------------------------------------------------------------------------
(* Operations of the pipeline *)

\* Pipeline.add_analyzer
AddAnalyzer ==
    /\ Len(pipeline.analyzers) < Len(AnalyzerPool)
    /\ pipeline' = [pipeline EXCEPT !.analyzers = Append(@, AnalyzerPool[Len(@) + 1])]
    /\ UNCHANGED <<driver, pc, source, run, delivered, nframes, last>>
    /\ UNCHANGED unitvars

\* Pipeline.add_predictor
AddPredictor ==
    /\ Len(pipeline.predictors) < Len(PredictorPool)
    /\ pipeline' = [pipeline EXCEPT !.predictors = Append(@, PredictorPool[Len(@) + 1])]
    /\ UNCHANGED <<driver, pc, source, run, delivered, nframes, last>>
    /\ UNCHANGED unitvars

\* Pipeline.on_packet
OnPacket ==
    /\ Len(pipeline.callbacks) < MaxCallbacks
    /\ pipeline' = [pipeline EXCEPT !.callbacks = Append(@, Len(@) + 1)]
    /\ UNCHANGED <<driver, pc, source, run, delivered, nframes, last>>
    /\ UNCHANGED unitvars

\* Pipeline.stop
stop(self) == [self EXCEPT !.running = FALSE]

Stop ==
    /\ pipeline' = stop(pipeline)
    /\ run' = IF pc = "loop" THEN [run EXCEPT !.stop_seen = TRUE] ELSE run
    /\ last' = [NoLast EXCEPT !.op = "stop"]
    /\ UNCHANGED <<driver, pc, source, delivered, nframes>>
    /\ UNCHANGED unitvars

\* a reset that leaves the emit clock running
resetKeepsClock(self) == [self EXCEPT !.buffer = <<>>, !.state = PipelineState]

\* Pipeline.reset
reset(self) == [self EXCEPT !.buffer = <<>>, !.state = PipelineState, !.last_emit_ms = 0]

Reset ==
    /\ pipeline' = reset(pipeline)
    /\ last' = [NoLast EXCEPT !.op = "reset",
                  !.dirty = /\ pipeline.buffer # <<>>
                            /\ pipeline.state # PipelineState
                            /\ pipeline.last_emit_ms # 0]
    /\ UNCHANGED <<driver, pc, source, run, delivered, nframes>>
    /\ UNCHANGED unitvars

\* a caller feeds the next frame of its stream: Pipeline.process_frame(frame)
ProcessFrame ==
    /\ pc = "idle"
    /\ nframes < MaxFrames
    /\ \E i \in {nframes} :
       \E inp0 \in FrameInputs(pipeline) :
       \E cb \in CallbackInputs(pipeline, SourceFrame(i), inp0) :
          LET inp == [inp0 EXCEPT !.cb = cb]
              r == process_frame(pipeline, SourceFrame(i), inp)
          IN  /\ pipeline' = r.self
              /\ last' = LastCall(pipeline, SourceFrame(i), inp, r)
              /\ nframes' = i + 1
    /\ UNCHANGED <<driver, pc, source, run, delivered>>
    /\ UNCHANGED unitvars

----------------------------------------------------------------------------
(* The drivers: Pipeline.run, run_sync, run_async and BenchmarkSuite.run *)

Generators == {"run", "run_sync", "run_async"}
Drivers == Generators \cup {"benchmark"}

\* a driver is called on a fresh source of n frames; a generator runs nothing
\* until it is first resumed, BenchmarkSuite.run enters its loop at once
StartRun ==
    /\ pc = "idle"
    /\ \E d \in Drivers, n \in 0..Min(MaxSourceLen, MaxRunFrames - nframes) :
          /\ driver' = d
          /\ source' = [len |-> n, pos |-> 0, closed |-> FALSE]
          /\ pc' = IF d \in Generators THEN "created" ELSE "loop"
    /\ run' = NoRun
    /\ delivered' = <<>>
    /\ UNCHANGED <<pipeline, nframes, last>>
    /\ UNCHANGED unitvars

\* first resumption of the generator: self._running = True
Begin ==
    /\ pc = "created"
    /\ pipeline' = [pipeline EXCEPT !.running = TRUE]
    /\ pc' = "loop"
    /\ UNCHANGED <<driver, source, run, delivered, nframes, last>>
    /\ UNCHANGED unitvars

\* how a run ends: the finally clause of the generators (flag cleared, source
\* closed); BenchmarkSuite.run closes the source after its loop only
EndRun(d, self, src, how) ==
    IF d \in Generators
    THEN [self |-> [self EXCEPT !.running = FALSE], source |-> [src EXCEPT !.closed = TRUE]]
    ELSE [self |-> self,
          source |-> IF how = "raised" THEN src ELSE [src EXCEPT !.closed = TRUE]]

\* a loop that never looks at the flag
BreaksNever(d, self) == FALSE

\* the flag check at the top of the loop body, on the frame just pulled
Breaks(d, self) == d \in Generators /\ ~self.running

\* one turn of the for loop: pull the next frame, check the flag, process the
\* frame, hand the packet (if any) to the consumer
Iterate ==
    /\ pc = "loop"
    /\ \E inp0 \in RunInputs(pipeline) :
       \E cb \in CallbackInputs(pipeline, SourceFrame(source.pos), inp0) :
          LET frame  == SourceFrame(source.pos)
              inp    == [inp0 EXCEPT !.cb = cb]
              r      == process_frame(pipeline, frame, inp)
              pulled == [source EXCEPT !.pos = @ + 1]
              over   == source.pos = source.len
              broke  == ~over /\ Breaks(driver, pipeline)
              how    == IF over THEN "exhausted"
                        ELSE IF broke THEN "stopped"
                        ELSE IF r.ret = "raised" THEN "raised" ELSE "none"
              end    == EndRun(driver,
                               IF over \/ broke THEN pipeline ELSE r.self,
                               IF over THEN source ELSE pulled, how)
          IN  /\ pipeline' = IF how = "none" THEN r.self ELSE end.self
              /\ source' = IF how = "none" THEN pulled ELSE end.source
              /\ pc' = IF how = "none" THEN "loop" ELSE "idle"
              /\ nframes' = IF over THEN nframes ELSE nframes + 1
              /\ delivered' = IF ~over /\ ~broke /\ r.ret = "packet"
                              THEN Append(delivered, r.packet) ELSE delivered
              /\ run' = [run EXCEPT
                           !.ended = how,
                           !.pulled_after_stop =
                               IF ~over /\ run.stop_seen THEN @ + 1 ELSE @,
                           !.processed_after_stop =
                               IF ~over /\ ~broke /\ run.stop_seen THEN @ + 1 ELSE @,
                           !.stop_seen = IF ~over /\ ~broke THEN @ \/ r.stopped ELSE @]
              /\ last' = IF over \/ broke THEN [NoLast EXCEPT !.op = "end"]
                         ELSE LastCall(pipeline, frame, inp, r)
    /\ UNCHANGED driver
    /\ UNCHANGED unitvars

\* the pipeline as a caller drives it frame by frame
Next ==
    \/ AddAnalyzer
    \/ AddPredictor
    \/ Reset
    \/ ProcessFrame

Spec == Init /\ [][Next]_vars

\* the assembled pipeline (both analyzers, both predictors) under the drivers
Assembled(cfg) ==
    [PipelineInit(cfg) EXCEPT !.analyzers = AnalyzerPool, !.predictors = PredictorPool]

InitRun ==
    /\ UnitIdle
    /\ pipeline \in {Assembled(cfg) : cfg \in Configs}
    /\ driver = "none"
    /\ pc = "idle"
    /\ source = NoSource
    /\ run = NoRun
    /\ delivered = <<>>
    /\ nframes = 0
    /\ last = NoLast

NextRun ==
    \/ OnPacket
    \/ StartRun
    \/ Begin
    \/ Iterate
    \/ Stop

SpecRun == InitRun /\ [][NextRun]_vars

\* no pipeline is involved: the object under test is used directly
PipeIdle ==
    /\ pipeline = PipelineInit([emit_interval_ms |-> 0, min_confidence_to_emit |-> 0,
                                buffer_duration_ms |-> 40])
    /\ driver = "none"
    /\ pc = "idle"
    /\ source = NoSource
    /\ run = NoRun
    /\ delivered = <<>>
    /\ nframes = 0
    /\ last = NoLast

----------------------------------------------------------------------------
(* A FrameBuffer used directly: FrameBuffer(max_frames, max_duration_ms), push, clear *)

FrameBufferInit(max_frames, max_duration_ms) ==
    [kind |-> "buffer", frames |-> <<>>, max_frames |-> max_frames,
     max_duration_ms |-> max_duration_ms]

\* the parameters explored and the timestamp steps between pushed frames
\* (0: two frames carry the same timestamp)
BufferCounts == 1..2
BufferSpans == {0, 20, 40}
TimestampSteps == {0, 20, 40}

InitBuffer ==
    /\ PipeIdle
    /\ unit = "buffer"
    /\ inst \in {FrameBufferInit(n, d) : n \in BufferCounts, d \in BufferSpans}
    /\ twin = NoInst
    /\ phase = "history"
    /\ clock = 0
    /\ obs = [op |-> "none", pushed |-> <<>>]

\* FrameBuffer.push(frame) of the next frame of a stream with non-decreasing timestamps
BufferPush ==
    /\ unit = "buffer"
    /\ Len(obs.pushed) < MaxPushes
    /\ \E step \in TimestampSteps :
          LET ts == IF obs.pushed = <<>> THEN 0 ELSE clock + step
              frame == AudioFrame(Len(obs.pushed), ts)
          IN  /\ inst' = [inst EXCEPT !.frames =
                             Push(inst.frames, frame, inst.max_frames, inst.max_duration_ms)]
              /\ clock' = ts
              /\ obs' = [op |-> "push", pushed |-> Append(obs.pushed, frame)]
    /\ UNCHANGED <<unit, twin, phase>>
    /\ UNCHANGED pipevars

\* FrameBuffer.clear()
BufferClear ==
    /\ unit = "buffer"
    /\ inst.frames # <<>>
    /\ inst' = [inst EXCEPT !.frames = <<>>]
    /\ obs' = [obs EXCEPT !.op = "clear"]
    /\ UNCHANGED <<unit, twin, phase, clock>>
    /\ UNCHANGED pipevars

NextBuffer ==
    \/ BufferPush
    \/ BufferClear

SpecBuffer == InitBuffer /\ [][NextBuffer]_vars

----------------------------------------------------------------------------
(* The provided sources: talkytalk/sources/synthetic.py, talkytalk/sources/microphone.py *)

\* what an AudioConfig answers to: its fields and its properties
AudioConfigAttrs ==
    {"sample_rate", "channels", "frame_duration_ms", "dtype", "frame_size", "bytes_per_frame"}

\* AudioConfig.frame_size
frame_size(sample_rate, duration_ms) == (sample_rate * duration_ms) \div 1000

\* config.<name> where the sources look up the number of samples in a frame:
\* the value when AudioConfig has the attribute, else AttributeError
ConfigAttr(src, name) ==
    IF name \in AudioConfigAttrs
    THEN [ok |-> TRUE, value |-> frame_size(src.sample_rate, src.frame_duration_ms)]
    ELSE [ok |-> FALSE, value |-> 0]

SourceClasses ==
    {"ArraySource", "SineSource", "NoiseSource", "SilenceSource", "MicrophoneSource"}
SampleRates == {16000, 11025}

\* the constructors: position and frame counter at 0; nframes frames of audio are
\* available (the array, the generated signal, or what the device delivers)
SourceInit(cls, sample_rate, n) ==
    [kind |-> "source", cls |-> cls, sample_rate |-> sample_rate,
     frame_duration_ms |-> frame_duration_ms,
     data_len |-> n * frame_size(sample_rate, frame_duration_ms),
     position |-> 0, frame_id |-> 0, timestamp_ms |-> 0, closed |-> FALSE,
     gen |-> "none"]

InitSource ==
    /\ PipeIdle
    /\ unit = "source"
    /\ inst \in {SourceInit(c, r, n) : c \in SourceClasses, r \in SampleRates,
                                      n \in 0..MaxSourceLen}
    /\ twin = NoInst
    /\ phase = "history"
    /\ clock = 0
    /\ obs = [op |-> "none", outcome |-> "none", frame |-> NoFrame, yielded |-> 0]

\* source.frames(): the generator is created, nothing runs yet
SourceFrames ==
    /\ unit = "source"
    /\ inst.gen \in {"none", "done"}
    /\ obs.op # "frames"
    /\ inst' = [inst EXCEPT !.gen = "created"]
    /\ obs' = [obs EXCEPT !.op = "frames", !.outcome = "none"]
    /\ UNCHANGED <<unit, twin, phase, clock>>
    /\ UNCHANGED pipevars

\* next() on the generator: the synthetic sources read config.samples_per_frame and
\* then slice the next frame; MicrophoneSource reads it in _start_stream and then
\* hands out the blocks the device delivered
SourceNext ==
    /\ unit = "source"
    /\ inst.gen \in {"created", "running"}
    /\ LET spf == ConfigAttr(inst, "samples_per_frame")
           more == inst.position + spf.value <= inst.data_len /\ ~inst.closed
           ts == IF inst.cls = "MicrophoneSource" THEN inst.timestamp_ms
                 ELSE (inst.position * 1000) \div inst.sample_rate
           frame == AudioFrame(inst.frame_id, ts)
       IN  IF inst.gen = "created" /\ ~spf.ok
           THEN /\ inst' = [inst EXCEPT !.gen = "done"]
                /\ obs' = [obs EXCEPT !.op = "next", !.outcome = "AttributeError"]
                /\ clock' = clock
           ELSE IF more
           THEN /\ inst' = [inst EXCEPT !.gen = "running",
                                        !.position = @ + spf.value,
                                        !.frame_id = @ + 1,
                                        !.timestamp_ms = @ + inst.frame_duration_ms]
                /\ obs' = [op |-> "next", outcome |-> "frame", frame |-> frame,
                           yielded |-> obs.yielded + 1]
                /\ clock' = ts
           ELSE /\ inst' = [inst EXCEPT !.gen = "done",
                                        !.closed = IF inst.cls = "MicrophoneSource"
                                                   THEN TRUE ELSE @]
                /\ obs' = [obs EXCEPT !.op = "next", !.outcome = "StopIteration"]
                /\ clock' = clock
    /\ UNCHANGED <<unit, twin, phase>>
    /\ UNCHANGED pipevars

\* source.close()
SourceClose ==
    /\ unit = "source"
    /\ ~inst.closed
    /\ inst' = [inst EXCEPT !.closed = TRUE]
    /\ obs' = [obs EXCEPT !.op = "close", !.outcome = "none"]
    /\ UNCHANGED <<unit, twin, phase, clock>>
    /\ UNCHANGED pipevars

NextSource ==
    \/ SourceFrames
    \/ SourceNext
    \/ SourceClose

SpecSource == InitSource /\ [][NextSource]_vars

----------------------------------------------------------------------------
(* TimingPredictor: talkytalk/predictors/timing.py *)

None == -1

\* the prosody result a predictor is handed: none (no prosody analyzer), or its flags
Prosodies == {"none", "flat", "rising", "falling"}
is_rising(prosody) == prosody = "rising"
is_falling(prosody) == prosody = "falling"

\* TimingPredictor.__init__
TimingPredictorInit(pause_threshold_ms, turn_end_threshold_ms, interrupt_confidence) ==
    [kind |-> "timing",
     pause_threshold_ms |-> pause_threshold_ms,
     turn_end_threshold_ms |-> turn_end_threshold_ms,
     interrupt_confidence |-> interrupt_confidence,
     silence_start_ms |-> None, last_speech_ms |-> 0, speech_likelihood |-> 0]

\* a likelihood update that reads the falling flag for the rising one
update_speech_likelihood_falling(self, timestamp, prosody) ==
    LET silence_duration == timestamp - self.silence_start_ms
        decay == IF silence_duration < 200 THEN 95
                 ELSE IF silence_duration < 500 THEN 85 ELSE 70
        decayed == (self.speech_likelihood * decay) \div 100
    IN  IF is_falling(prosody) THEN Min(100, decayed + 10) ELSE decayed

\* TimingPredictor._update_speech_likelihood (called on a non-speech frame, after
\* silence_start_ms has been set): the decay by silence length, the bump on rising
update_speech_likelihood(self, timestamp, prosody) ==
    LET silence_duration == timestamp - self.silence_start_ms
        decay == IF silence_duration < 200 THEN 95
                 ELSE IF silence_duration < 500 THEN 85 ELSE 70
        decayed == (self.speech_likelihood * decay) \div 100
    IN  IF self.silence_start_ms = None THEN self.speech_likelihood
        ELSE IF is_rising(prosody) THEN Min(100, decayed + 10) ELSE decayed

\* an interrupt check that forgets the rising intonation
calculate_interrupt_safety_no_rising(self, user_paused, silence_duration, falling, rising, intent_confidence) ==
    IF self.speech_likelihood > 70 THEN FALSE
    ELSE IF ~user_paused THEN FALSE
    ELSE IF silence_duration >= self.turn_end_threshold_ms THEN TRUE
    ELSE IF falling /\ silence_duration >= self.pause_threshold_ms THEN TRUE
    ELSE intent_confidence >= self.interrupt_confidence /\ user_paused

\* TimingPredictor._calculate_interrupt_safety
calculate_interrupt_safety(self, user_paused, silence_duration, falling, rising, intent_confidence) ==
    IF rising THEN FALSE
    ELSE IF self.speech_likelihood > 70 THEN FALSE
    ELSE IF ~user_paused THEN FALSE
    ELSE IF silence_duration >= self.turn_end_threshold_ms THEN TRUE
    ELSE IF falling /\ silence_duration >= self.pause_threshold_ms THEN TRUE
    ELSE IF intent_confidence >= self.interrupt_confidence /\ user_paused THEN TRUE
    ELSE FALSE

\* a pause test that needs the silence to exceed the threshold
user_paused_strict(self, silence_duration) == silence_duration > self.pause_threshold_ms

\* user_paused = silence_duration >= self._pause_threshold_ms
user_paused_of(self, silence_duration) == silence_duration >= self.pause_threshold_ms

\* TimingPredictor.predict on a frame: the predictor it leaves, the Timing it writes
\* into the state, and whether it sets state.speech_active
TimingPredictorPredict(self, timestamp, is_speech, prosody, intent_confidence) ==
    LET opened == IF self.silence_start_ms = None
                  THEN [self EXCEPT !.silence_start_ms = timestamp] ELSE self
        s1 == IF is_speech
              THEN [self EXCEPT !.last_speech_ms = timestamp, !.silence_start_ms = None,
                                !.speech_likelihood = 100]
              ELSE [opened EXCEPT !.speech_likelihood =
                                      update_speech_likelihood(opened, timestamp, prosody)]
        silence_duration == IF s1.silence_start_ms # None
                            THEN timestamp - s1.silence_start_ms ELSE 0
        user_paused == user_paused_of(s1, silence_duration)
        interrupt_safe == calculate_interrupt_safety(s1, user_paused, silence_duration,
                              is_falling(prosody), is_rising(prosody), intent_confidence)
    IN  [self |-> s1,
         timing |-> Timing(user_paused, interrupt_safe, s1.speech_likelihood, silence_duration),
         speech_active |-> is_speech]

\* TimingPredictor.reset
TimingPredictorReset(self) ==
    [self EXCEPT !.silence_start_ms = None, !.last_speech_ms = 0, !.speech_likelihood = 0]

\* parameters explored: the defaults, and short thresholds
TimingParams == {<<300, 700, 60>>, <<40, 600, 60>>}
\* the time between two frames handed to a predictor (the frame duration of the source)
FrameSteps == {20, 300}
Confidences == {0, 60}

NoTiming == [user_paused |-> FALSE, interrupt_safe |-> FALSE, speech_likelihood |-> None,
             silence_duration_ms |-> None]

InitTiming ==
    /\ PipeIdle
    /\ unit = "timing"
    /\ inst \in {TimingPredictorInit(q[1], q[2], q[3]) : q \in TimingParams}
    /\ twin = NoInst
    /\ phase = "history"
    /\ clock = 0
    /\ obs = [op |-> "none", n |-> 0, is_speech |-> FALSE, prosody |-> "none",
              confidence |-> 0, timing |-> NoTiming, spoken |-> FALSE,
              prev_speech |-> FALSE, prev_timing |-> NoTiming]

\* predictor.predict(context, state) on the next frame of the stream
TimingPredict1 ==
    /\ unit = "timing"
    /\ obs.n < MaxUnitFrames
    /\ \E step \in FrameSteps, sp \in BOOLEAN, pr \in Prosodies, c \in Confidences :
          LET ts == IF obs.n = 0 THEN 0 ELSE clock + step
              r == TimingPredictorPredict(inst, ts, sp, pr, c)
          IN  /\ inst' = r.self
              /\ clock' = ts
              /\ obs' = [op |-> "predict", n |-> obs.n + 1, is_speech |-> sp, prosody |-> pr,
                         confidence |-> c, timing |-> r.timing,
                         spoken |-> obs.spoken \/ sp,
                         prev_speech |-> obs.is_speech, prev_timing |-> obs.timing]
    /\ UNCHANGED <<unit, twin, phase>>
    /\ UNCHANGED pipevars

NextTiming == TimingPredict1

SpecTiming == InitTiming /\ [][NextTiming]_vars

----------------------------------------------------------------------------
(* TurnTakingPredictor: talkytalk/predictors/overlap.py *)

SegmentsMaxLen == 10

\* deque(maxlen=10).append
DequeAppend(dq, x) ==
    IF Len(dq) >= SegmentsMaxLen THEN Append(Tail(dq), x) ELSE Append(dq, x)

RECURSIVE Sum(_)
Sum(seq) == IF seq = <<>> THEN 0 ELSE Head(seq) + Sum(Tail(seq))

\* TurnTakingPredictor.__init__
TurnTakingPredictorInit(min_turn_gap_ms, safe_interrupt_gap_ms, max_wait_ms) ==
    [kind |-> "turn_taking",
     min_turn_gap_ms |-> min_turn_gap_ms,
     safe_interrupt_gap_ms |-> safe_interrupt_gap_ms,
     max_wait_ms |-> max_wait_ms,
     turn_start_ms |-> None, last_speech_ms |-> 0,
     silence_segments |-> <<>>, speech_segments |-> <<>>,
     current_state |-> "user_speaking", state_start_ms |-> 0]

\* TurnTakingPredictor._update_segments
update_segments(self, timestamp, is_speech) ==
    IF is_speech
    THEN LET started == IF self.turn_start_ms = None
                        THEN [self EXCEPT !.turn_start_ms = timestamp] ELSE self
             gap == timestamp - self.last_speech_ms
             noted == IF self.last_speech_ms > 0 /\ gap > 50
                      THEN [started EXCEPT !.silence_segments = DequeAppend(@, gap)]
                      ELSE started
         IN  [noted EXCEPT !.last_speech_ms = timestamp]
    ELSE LET \* self._turn_start_ms or self._last_speech_ms: None and 0 are both falsy
             since == IF self.turn_start_ms = None \/ self.turn_start_ms = 0
                      THEN self.last_speech_ms ELSE self.turn_start_ms
             speech_duration == self.last_speech_ms - since
         IN  IF self.last_speech_ms > 0 /\ speech_duration > 0
             THEN [self EXCEPT !.speech_segments = DequeAppend(@, Min(speech_duration, 5000))]
             ELSE self

\* a silence measured from timestamp 0 when there has been no speech
silence_since_start(self, timestamp) == timestamp - self.last_speech_ms

\* the silence the predictor measures: 0 while last_speech_ms is 0
silence_since_speech(self, timestamp) ==
    IF self.last_speech_ms > 0 THEN timestamp - self.last_speech_ms ELSE 0

\* TurnTakingPredictor._determine_turn_state
determine_turn_state(self, timestamp, is_speech, prosody) ==
    LET silence_duration == silence_since_speech(self, timestamp)
    IN  IF is_speech THEN "user_speaking"
        ELSE IF silence_duration < self.min_turn_gap_ms THEN "user_speaking"
        ELSE IF silence_duration < self.safe_interrupt_gap_ms THEN "user_pausing"
        ELSE IF is_falling(prosody) \/ silence_duration > self.safe_interrupt_gap_ms
             THEN "turn_yielded"
        ELSE IF silence_duration > self.max_wait_ms THEN "system_can_speak"
        ELSE "user_pausing"

\* TurnTakingPredictor.predict on a frame: the predictor it leaves and the signal it
\* publishes (state, turn_duration_ms, silence_in_turn_ms; the other fields of the
\* signal are functions of the frame's inputs and the parameters alone)
TurnTakingPredictorPredict(self, timestamp, is_speech, prosody) ==
    LET s1 == update_segments(self, timestamp, is_speech)
        new_state == determine_turn_state(s1, timestamp, is_speech, prosody)
        s2 == IF new_state # s1.current_state
              THEN [s1 EXCEPT !.state_start_ms = timestamp, !.current_state = new_state]
              ELSE s1
    IN  [self |-> s2,
         signal |-> [state |-> s2.current_state,
                     turn_duration_ms |->
                         IF s2.turn_start_ms = None \/ s2.turn_start_ms = 0 THEN 0
                         ELSE timestamp - s2.turn_start_ms,
                     silence_in_turn_ms |-> Sum(s2.silence_segments)]]

\* class InterruptReason: the values published as interrupt_reason
InterruptReason ==
    [SPEAKING |-> "user_still_speaking", RISING_INTONATION |-> "question_forming",
     SHORT_PAUSE |-> "pause_too_short", FALLING_COMPLETE |-> "falling_intonation_complete",
     LONG_SILENCE |-> "extended_silence", HIGH_CONFIDENCE |-> "high_intent_confidence",
     FORCED |-> "forced_by_system"]

\* an interrupt decision that needs the silence to exceed the safe gap
evaluate_interrupt_late(self, silence_duration, rising, falling, intent_confidence) ==
    IF silence_duration < self.min_turn_gap_ms THEN <<FALSE, InterruptReason.SPEAKING>>
    ELSE IF rising THEN <<FALSE, InterruptReason.RISING_INTONATION>>
    ELSE IF silence_duration <= self.safe_interrupt_gap_ms /\ ~falling
         THEN <<FALSE, InterruptReason.SHORT_PAUSE>>
    ELSE IF falling THEN <<TRUE, InterruptReason.FALLING_COMPLETE>>
    ELSE <<TRUE, InterruptReason.LONG_SILENCE>>

\* TurnTakingPredictor._evaluate_interrupt: <<can_interrupt, reason>>
evaluate_interrupt(self, silence_duration, rising, falling, intent_confidence) ==
    IF silence_duration < self.min_turn_gap_ms THEN <<FALSE, InterruptReason.SPEAKING>>
    ELSE IF rising THEN <<FALSE, InterruptReason.RISING_INTONATION>>
    ELSE IF silence_duration < self.safe_interrupt_gap_ms /\ ~falling
         THEN <<FALSE, InterruptReason.SHORT_PAUSE>>
    ELSE IF falling /\ silence_duration >= self.min_turn_gap_ms
         THEN <<TRUE, InterruptReason.FALLING_COMPLETE>>
    ELSE IF silence_duration >= self.safe_interrupt_gap_ms
         THEN <<TRUE, InterruptReason.LONG_SILENCE>>
    ELSE IF intent_confidence > 70 THEN <<TRUE, InterruptReason.HIGH_CONFIDENCE>>
    ELSE <<FALSE, InterruptReason.SHORT_PAUSE>>

\* TurnTakingPredictor._should_wait
should_wait(self, silence_duration, rising, speech_likelihood) ==
    rising \/ speech_likelihood > 60 \/ silence_duration < self.safe_interrupt_gap_ms

\* TurnTakingPredictor._calculate_overlap_probability
calculate_overlap_probability(self, silence_duration, rising, speech_likelihood) ==
    LET base_prob == Max(0, 100 - (silence_duration * 100) \div self.safe_interrupt_gap_ms)
        raised == IF rising THEN Min(100, base_prob + 30) ELSE base_prob
        speech_factor == (speech_likelihood * 30) \div 100
    IN  IF silence_duration > self.max_wait_ms THEN 0 ELSE Min(100, raised + speech_factor)

\* TurnTakingPredictor._calculate_suggested_wait
calculate_suggested_wait(self, silence_duration, falling, intent_confidence) ==
    LET remaining == self.safe_interrupt_gap_ms - silence_duration
        r1 == IF falling THEN Max(0, remaining - 200) ELSE remaining
        r2 == IF intent_confidence > 80 THEN Max(0, r1 - 100) ELSE r1
    IN  IF silence_duration >= self.safe_interrupt_gap_ms /\ falling THEN 0
        ELSE IF silence_duration >= self.max_wait_ms THEN 0
        ELSE Max(0, r2)

\* a signal that lets a high intent confidence open the interrupt after any pause
generate_signal_confident(self, timestamp, prosody, intent_confidence, speech_likelihood) ==
    LET silence_duration == silence_since_speech(self, timestamp)
        ev == IF intent_confidence > 70 /\ silence_duration >= self.min_turn_gap_ms
                 /\ ~is_rising(prosody)
              THEN <<TRUE, InterruptReason.HIGH_CONFIDENCE>>
              ELSE evaluate_interrupt(self, silence_duration, is_rising(prosody),
                                      is_falling(prosody), intent_confidence)
    IN  [state |-> self.current_state,
         silence_duration |-> silence_duration,
         can_interrupt |-> ev[1],
         interrupt_reason |-> ev[2],
         should_wait |-> should_wait(self, silence_duration, is_rising(prosody),
                                     speech_likelihood),
         suggested_wait_ms |-> calculate_suggested_wait(self, silence_duration,
                                                        is_falling(prosody), intent_confidence),
         overlap_probability |-> calculate_overlap_probability(self, silence_duration,
                                     is_rising(prosody), speech_likelihood)]

\* TurnTakingPredictor._generate_signal, called by predict once the segments and the
\* turn state are updated: the fields it computes from the silence, the prosody and
\* the pipeline state
generate_signal(self, timestamp, prosody, intent_confidence, speech_likelihood) ==
    LET silence_duration == silence_since_speech(self, timestamp)
        ev == evaluate_interrupt(self, silence_duration, is_rising(prosody),
                                 is_falling(prosody), intent_confidence)
    IN  [state |-> self.current_state,
         silence_duration |-> silence_duration,
         can_interrupt |-> ev[1],
         interrupt_reason |-> ev[2],
         should_wait |-> should_wait(self, silence_duration, is_rising(prosody),
                                     speech_likelihood),
         suggested_wait_ms |-> calculate_suggested_wait(self, silence_duration,
                                                        is_falling(prosody), intent_confidence),
         overlap_probability |-> calculate_overlap_probability(self, silence_duration,
                                     is_rising(prosody), speech_likelihood)]

\* TurnTakingPredictor.reset
TurnTakingPredictorReset(self) ==
    [self EXCEPT !.turn_start_ms = None, !.last_speech_ms = 0,
                 !.silence_segments = <<>>, !.speech_segments = <<>>,
                 !.current_state = "user_speaking", !.state_start_ms = 0]

\* parameters explored: the defaults, and short gaps
TurnParams == {<<200, 500, 2000>>, <<40, 60, 100>>}
TurnSteps == {20, 60}

\* state.intent_confidence and state.timing.speech_likelihood when predict is called;
\* twin_signal is the signal of a second run of the same stream that differs in
\* state.intent_confidence alone
TurnConfidences == {0, 90}
Likelihoods == {0, 100}

NoSignal == [state |-> "none"]

InitTurn ==
    /\ PipeIdle
    /\ unit = "turn_taking"
    /\ inst \in {TurnTakingPredictorInit(q[1], q[2], q[3]) : q \in TurnParams}
    /\ twin = NoInst
    /\ phase = "history"
    /\ clock = 0
    /\ obs = [op |-> "none", n |-> 0, is_speech |-> FALSE, prosody |-> "none",
              state |-> "none", spoke |-> FALSE, spoke_at |-> 0,
              confidence |-> 0, signal |-> NoSignal, twin_signal |-> NoSignal]

\* predictor.predict(context, state) on the next frame of the stream, with the intent
\* confidence and the speech likelihood the pipeline state holds at that point
TurnPredict ==
    /\ unit = "turn_taking"
    /\ obs.n < MaxUnitFrames
    /\ \E step \in TurnSteps, sp \in BOOLEAN, pr \in Prosodies,
          c \in TurnConfidences, sl \in Likelihoods :
          LET ts == IF obs.n = 0 THEN 0 ELSE clock + step
              r == TurnTakingPredictorPredict(inst, ts, sp, pr)
          IN  /\ inst' = r.self
              /\ clock' = ts
              /\ obs' = [op |-> "predict", n |-> obs.n + 1, is_speech |-> sp, prosody |-> pr,
                         state |-> r.signal.state,
                         spoke |-> obs.spoke \/ sp,
                         spoke_at |-> IF sp THEN ts ELSE obs.spoke_at,
                         confidence |-> c,
                         signal |-> generate_signal(r.self, ts, pr, c, sl),
                         twin_signal |-> generate_signal(r.self, ts, pr,
                                             CHOOSE c2 \in TurnConfidences : c2 # c, sl)]
    /\ UNCHANGED <<unit, twin, phase>>
    /\ UNCHANGED pipevars

\* predictor.reset()
TurnReset ==
    /\ unit = "turn_taking"
    /\ obs.op = "predict"
    /\ inst' = TurnTakingPredictorReset(inst)
    /\ obs' = [obs EXCEPT !.op = "reset", !.spoke = FALSE, !.spoke_at = 0,
                          !.signal = NoSignal, !.twin_signal = NoSignal]
    /\ UNCHANGED <<unit, twin, phase, clock>>
    /\ UNCHANGED pipevars

NextTurn == TurnPredict \/ TurnReset

SpecTurn == InitTurn /\ [][NextTurn]_vars

----------------------------------------------------------------------------
(* A turn-taking predictor with the default parameters follows a stream of frames *)
(* one frame duration apart: speech from timestamp 0, then unbroken silence.       *)

MaxSpeechFrames == 4
MaxSilenceFrames == 105

\* the turn states published so far, each change of state once
Noted(seen, state) ==
    IF seen # <<>> /\ seen[Len(seen)] = state THEN seen ELSE Append(seen, state)

InitTimeline ==
    /\ PipeIdle
    /\ unit = "timeline"
    /\ inst = TurnTakingPredictorInit(200, 500, 2000)
    /\ twin = NoInst
    /\ phase = "speech"
    /\ clock = 0
    /\ obs = [op |-> "none", n |-> 0, speech_frames |-> 0, silence_ms |-> 0, seen |-> <<>>,
              signal |-> NoSignal]

\* predict on a frame the VAD reports as speech
TimelineSpeech ==
    /\ unit = "timeline"
    /\ phase = "speech"
    /\ obs.speech_frames < MaxSpeechFrames
    /\ \E c \in TurnConfidences, sl \in Likelihoods :
          LET ts == obs.n * frame_duration_ms
              r == TurnTakingPredictorPredict(inst, ts, TRUE, "flat")
              sig == generate_signal(r.self, ts, "flat", c, sl)
          IN  /\ inst' = r.self
              /\ clock' = ts
              /\ obs' = [obs EXCEPT !.op = "predict", !.n = @ + 1,
                                    !.speech_frames = @ + 1,
                                    !.seen = Noted(@, sig.state), !.signal = sig]
    /\ UNCHANGED <<unit, twin, phase>>
    /\ UNCHANGED pipevars

\* predict on a frame the VAD reports as non-speech, once the speech is over
TimelineSilence ==
    /\ unit = "timeline"
    /\ obs.speech_frames >= 2
    /\ obs.silence_ms < MaxSilenceFrames * frame_duration_ms
    /\ \E c \in TurnConfidences, sl \in Likelihoods :
          LET ts == obs.n * frame_duration_ms
              r == TurnTakingPredictorPredict(inst, ts, FALSE, "flat")
              sig == generate_signal(r.self, ts, "flat", c, sl)
          IN  /\ inst' = r.self
              /\ clock' = ts
              /\ obs' = [obs EXCEPT !.op = "predict", !.n = @ + 1,
                                    !.silence_ms = @ + frame_duration_ms,
                                    !.seen = Noted(@, sig.state), !.signal = sig]
    /\ phase' = "silence"
    /\ UNCHANGED <<unit, twin>>
    /\ UNCHANGED pipevars

NextTimeline == TimelineSpeech \/ TimelineSilence

SpecTimeline == InitTimeline /\ [][NextTimeline]_vars

----------------------------------------------------------------------------
(* VADAnalyzer: talkytalk/analyzers/vad.py.  Energies in thousandths of a dB, rates *)
(* and probabilities in hundredths.                                               *)

\* VADAnalyzer.__init__
VADAnalyzerInit(energy_threshold_db, hangover_frames, adaptive) ==
    [kind |-> "vad",
     energy_threshold_db |-> energy_threshold_db,
     hangover_frames |-> hangover_frames,
     adaptive |-> adaptive,
     noise_floor_db |-> -60000, hangover_counter |-> 0, speech_active |-> FALSE,
     frame_count |-> 0]

\* VADAnalyzer._update_noise_floor: alpha is 0.01 near the floor, 0.001 above it
update_noise_floor(self, energy_db) ==
    LET alpha == IF energy_db < self.noise_floor_db + 5000 THEN 10 ELSE 1
    IN  [self EXCEPT !.noise_floor_db = ((1000 - alpha) * @ + alpha * energy_db) \div 1000]

\* VADAnalyzer._calculate_speech_probability
calculate_speech_probability(energy_db, zcr, threshold) ==
    LET energy_prob == IF energy_db > threshold + 10000 THEN 100
                       ELSE ((energy_db - (threshold - 20000)) * 100) \div 30000
        zcr_prob == Max(0, 100 - zcr * 2)
    IN  IF energy_db < threshold - 20000 THEN 0
        ELSE Min(100, (energy_prob * 70 + zcr_prob * 30) \div 100)

\* an analyze that drops speech on the first frame that is not raw speech
VADAnalyzerAnalyzeEager(self, energy_db, zcr) ==
    LET s0 == [self EXCEPT !.frame_count = @ + 1]
        s1 == IF s0.adaptive THEN update_noise_floor(s0, energy_db) ELSE s0
        threshold == Max(s1.energy_threshold_db, s1.noise_floor_db + 10000)
        raw_speech == energy_db > threshold /\ zcr < 50
        s2 == IF raw_speech
              THEN [s1 EXCEPT !.hangover_counter = s1.hangover_frames, !.speech_active = TRUE]
              ELSE [s1 EXCEPT !.speech_active = FALSE]
    IN  [self |-> s2,
         out |-> [is_speech |-> s2.speech_active,
                  speech_probability |-> calculate_speech_probability(energy_db, zcr, threshold),
                  energy_db |-> energy_db,
                  threshold_db |-> threshold,
                  noise_floor_db |-> s2.noise_floor_db]]

\* VADAnalyzer.analyze on a frame of the given energy and zero-crossing rate
VADAnalyzerAnalyze(self, energy_db, zcr) ==
    LET s0 == [self EXCEPT !.frame_count = @ + 1]
        s1 == IF s0.adaptive THEN update_noise_floor(s0, energy_db) ELSE s0
        threshold == Max(s1.energy_threshold_db, s1.noise_floor_db + 10000)
        raw_speech == energy_db > threshold /\ zcr < 50
        s2 == IF raw_speech
              THEN [s1 EXCEPT !.hangover_counter = s1.hangover_frames, !.speech_active = TRUE]
              ELSE IF s1.hangover_counter > 0
                   THEN [s1 EXCEPT !.hangover_counter = @ - 1]
                   ELSE [s1 EXCEPT !.speech_active = FALSE]
    IN  [self |-> s2,
         out |-> [is_speech |-> s2.speech_active,
                  speech_probability |-> calculate_speech_probability(energy_db, zcr, threshold),
                  energy_db |-> energy_db,
                  threshold_db |-> threshold,
                  noise_floor_db |-> s2.noise_floor_db]]

\* VADAnalyzer.reset
VADAnalyzerReset(self) ==
    [self EXCEPT !.noise_floor_db = -60000, !.hangover_counter = 0, !.speech_active = FALSE,
                 !.frame_count = 0]

----------------------------------------------------------------------------
(* ProsodyAnalyzer: talkytalk/analyzers/prosody.py.  The pitch of a frame is an input *)
(* (the analyzer estimates it from the samples alone); so is the tempo, which is     *)
(* computed from the frame buffer and not from the analyzer.                         *)

PitchHistoryMaxLen == 25

\* ProsodyAnalyzer.__init__
ProsodyAnalyzerInit(pause_threshold_ms) ==
    [kind |-> "prosody",
     pause_threshold_ms |-> pause_threshold_ms,
     pitch_history |-> <<>>, last_speech_timestamp |-> 0, current_pause_start |-> None]

RECURSIVE SumSq(_)
SumSq(seq) == IF seq = <<>> THEN 0 ELSE Head(seq) * Head(seq) + SumSq(Tail(seq))

\* np.var of the pitch history once it holds more than two pitches, else 0
pitch_variance_of(history) ==
    LET n == Len(history)
    IN  IF n > 2 THEN (n * SumSq(history) - Sum(history) * Sum(history)) \div (n * n) ELSE 0

\* ten times the least-squares slope of five equally spaced values
Slope10(recent) == 2 * recent[5] + recent[4] - recent[2] - 2 * recent[1]

\* ProsodyAnalyzer._detect_intonation: <<is_rising, is_falling>>
detect_intonation(self) ==
    IF Len(self.pitch_history) < 5 THEN <<FALSE, FALSE>>
    ELSE LET recent == SubSeq(self.pitch_history, Len(self.pitch_history) - 4,
                              Len(self.pitch_history))
         IN  <<Slope10(recent) > 50, Slope10(recent) < -50>>

\* ProsodyAnalyzer._track_pauses: the analyzer it leaves and the pause it reports
track_pauses(self, timestamp_ms, is_speech) ==
    IF is_speech
    THEN IF self.current_pause_start # None
         THEN [self |-> [self EXCEPT !.current_pause_start = None],
               pause |-> timestamp_ms - self.current_pause_start]
         ELSE [self |-> [self EXCEPT !.last_speech_timestamp = timestamp_ms], pause |-> 0]
    ELSE LET s == IF self.current_pause_start = None
                  THEN [self EXCEPT !.current_pause_start = timestamp_ms] ELSE self
         IN  [self |-> s, pause |-> timestamp_ms - s.current_pause_start]

\* ProsodyAnalyzer.analyze on a frame: is_speech is the VAD's verdict (TRUE when there
\* is no VAD result), pitch the estimate for a frame that is speech and loud enough
ProsodyAnalyzerAnalyze(self, timestamp_ms, is_speech, pitch, tempo) ==
    LET pitch_hz == IF is_speech THEN pitch ELSE 0
        grown == Append(self.pitch_history, pitch_hz)
        s1 == IF pitch_hz > 0
              THEN [self EXCEPT !.pitch_history =
                                    IF Len(grown) > PitchHistoryMaxLen THEN Tail(grown)
                                    ELSE grown]
              ELSE self
        into == detect_intonation(s1)
        r == track_pauses(s1, timestamp_ms, is_speech)
    IN  [self |-> r.self,
         out |-> [pitch_hz |-> pitch_hz,
                  pitch_variance |-> pitch_variance_of(s1.pitch_history),
                  tempo |-> tempo,
                  pause_duration_ms |-> r.pause,
                  is_rising_intonation |-> into[1],
                  is_falling_intonation |-> into[2],
                  pitch_history_len |-> Len(s1.pitch_history)]]

\* ProsodyAnalyzer.reset
ProsodyAnalyzerReset(self) ==
    [self EXCEPT !.pitch_history = <<>>, !.last_speech_timestamp = 0,
                 !.current_pause_start = None]

----------------------------------------------------------------------------
(* EmotionAnalyzer: talkytalk/analyzers/emotion.py.  Values in ten-thousandths. *)

\* EmotionAnalyzer.__init__
EmotionAnalyzerInit(smoothing_alpha) ==
    [kind |-> "emotion",
     smoothing_alpha |-> smoothing_alpha,
     current_arousal |-> 5000, current_valence |-> 5000,
     energy_baseline |-> -40000, pitch_baseline |-> 150]

ClampTo(lo, hi, x) == Max(lo, Min(hi, x))

\* EmotionAnalyzer._estimate_arousal
estimate_arousal(self, energy_db, pitch_variance, tempo) ==
    LET energy_contrib == ClampTo(0, 10000, (energy_db - self.energy_baseline + 30000) \div 6)
        variance_contrib == Min(10000, pitch_variance * 10)
        tempo_contrib == Min(10000, (tempo * 10000) \div 8)
    IN  ClampTo(0, 10000,
                (energy_contrib * 5 + variance_contrib * 3 + tempo_contrib * 2) \div 10)

\* EmotionAnalyzer._estimate_valence
estimate_valence(self, pitch_hz, rising) ==
    LET pitch_contrib == ClampTo(-3000, 3000, (pitch_hz - self.pitch_baseline) * 50)
        rising_contrib == IF rising THEN 1000 ELSE 0
    IN  IF pitch_hz <= 0 THEN 5000
        ELSE ClampTo(0, 10000, 5000 + pitch_contrib + rising_contrib)

\* EmotionAnalyzer._smooth (smoothing_alpha in hundredths)
smooth(self, current, new) ==
    (current * (100 - self.smoothing_alpha) + new * self.smoothing_alpha) \div 100

\* EmotionAnalyzer.analyze, from the VAD's energy and the prosody result of the frame
EmotionAnalyzerAnalyze(self, energy_db, pitch_hz, pitch_variance, tempo, rising) ==
    LET raw_arousal == estimate_arousal(self, energy_db, pitch_variance, tempo)
        raw_valence == estimate_valence(self, pitch_hz, rising)
        s1 == [self EXCEPT !.current_arousal = smooth(self, @, raw_arousal),
                           !.current_valence = smooth(self, @, raw_valence)]
    IN  [self |-> s1,
         out |-> [arousal |-> s1.current_arousal, valence |-> s1.current_valence,
                  raw_arousal |-> raw_arousal, raw_valence |-> raw_valence]]

\* EmotionAnalyzer.reset
EmotionAnalyzerReset(self) ==
    [self EXCEPT !.current_arousal = 5000, !.current_valence = 5000]

----------------------------------------------------------------------------
(* LanguageAnalyzer: talkytalk/analyzers/language.py *)

\* LanguageAnalyzer.__init__
LanguageAnalyzerInit(default_language) ==
    [kind |-> "language",
     default_language |-> default_language,
     detected_language |-> default_language, confidence |-> 0]

\* LanguageAnalyzer.analyze: reports what it holds, and changes nothing
LanguageAnalyzerAnalyze(self) ==
    [self |-> self,
     out |-> [language |-> self.detected_language, confidence |-> self.confidence]]

\* LanguageAnalyzer.reset
LanguageAnalyzerReset(self) ==
    [self EXCEPT !.detected_language = self.default_language, !.confidence = 0]

----------------------------------------------------------------------------
(* IntentPredictor: talkytalk/predictors/intent.py.  Scores, confidences and the *)
(* arousal in ten-thousandths; the decay rate in hundredths.                     *)

\* class Intent, in the order of its members
Intents == <<"play_music", "translate", "query", "conversation", "command", "unknown">>
IntentSet == {Intents[i] : i \in 1..Len(Intents)}

\* a predictor constructed with a score for play_music
IntentPredictorInitSeeded(confidence_threshold, decay_rate) ==
    [kind |-> "intent",
     confidence_threshold |-> confidence_threshold,
     decay_rate |-> decay_rate,
     intent_scores |-> [i \in IntentSet |-> IF i = "play_music" THEN 5000 ELSE 0],
     frame_count |-> 0]

\* IntentPredictor.__init__
IntentPredictorInit(confidence_threshold, decay_rate) ==
    [kind |-> "intent",
     confidence_threshold |-> confidence_threshold,
     decay_rate |-> decay_rate,
     intent_scores |-> [i \in IntentSet |-> 0],
     frame_count |-> 0]

\* scores that are kept from frame to frame as they are
decay_scores_kept(self) == self

\* IntentPredictor._decay_scores
decay_scores(self) ==
    [self EXCEPT !.intent_scores = [i \in IntentSet |-> (@[i] * self.decay_rate) \div 100]]

\* heuristics that score a frame of silence like a frame of speech
apply_heuristics_on_silence(self, vad, is_speech, arousal, rising, falling, tempo, pause_duration) ==
    LET sc == self.intent_scores
        command == IF arousal > 7000 /\ falling /\ tempo > 4 THEN 1500 ELSE 0
        query == (IF rising THEN 1200 ELSE 0)
                 + (IF pause_duration > 300 /\ pause_duration < 1000 THEN 500 ELSE 0)
        conversation == IF 3000 < arousal /\ arousal < 7000 /\ ~rising /\ ~falling
                        THEN 800 ELSE 0
    IN  [self EXCEPT !.intent_scores =
             [sc EXCEPT !["command"] = @ + command,
                        !["query"] = @ + query,
                        !["conversation"] = @ + conversation,
                        !["unknown"] = @ + 200]]

\* IntentPredictor._apply_heuristics: vad is whether there is a VAD result at all; the
\* other inputs carry the defaults of the code when their analyzer is absent
apply_heuristics(self, vad, is_speech, arousal, rising, falling, tempo, pause_duration) ==
    LET sc == self.intent_scores
        command == IF arousal > 7000 /\ falling /\ tempo > 4 THEN 1500 ELSE 0
        query == (IF rising THEN 1200 ELSE 0)
                 + (IF pause_duration > 300 /\ pause_duration < 1000 THEN 500 ELSE 0)
        conversation == IF 3000 < arousal /\ arousal < 7000 /\ ~rising /\ ~falling
                        THEN 800 ELSE 0
    IN  IF ~(vad /\ is_speech) THEN self
        ELSE [self EXCEPT !.intent_scores =
                 [sc EXCEPT !["command"] = @ + command,
                            !["query"] = @ + query,
                            !["conversation"] = @ + conversation,
                            !["unknown"] = @ + 200]]

\* max(self._intent_scores, key=...): the first member with the highest score
best_intent_of(scores) ==
    LET k == CHOOSE i \in 1..Len(Intents) :
                 /\ \A j \in 1..Len(Intents) : scores[Intents[j]] <= scores[Intents[i]]
                 /\ \A j \in 1..(i - 1) : scores[Intents[j]] < scores[Intents[i]]
    IN  Intents[k]

\* a selection that reports the best intent however small its share
get_best_intent_any_share(self) ==
    LET sc == self.intent_scores
        total == Sum([i \in 1..Len(Intents) |-> sc[Intents[i]]])
        best_intent == best_intent_of(sc)
    IN  IF total < 100 THEN <<"unknown", 0>>
        ELSE <<best_intent, (sc[best_intent] * 10000) \div total>>

\* IntentPredictor._get_best_intent: <<intent, confidence>>
get_best_intent(self) ==
    LET sc == self.intent_scores
        total == Sum([i \in 1..Len(Intents) |-> sc[Intents[i]]])
        best_intent == best_intent_of(sc)
        confidence == (sc[best_intent] * 10000) \div total
        raw_confidence == Min(10000, sc[best_intent])
    IN  IF total < 100 THEN <<"unknown", 0>>
        ELSE IF confidence < 4000 THEN <<"unknown", raw_confidence \div 2>>
        ELSE <<best_intent, confidence>>

\* IntentPredictor.predict on a frame: the predictor it leaves and what it writes
\* into the state
IntentPredictorPredict(self, vad, is_speech, arousal, rising, falling, tempo, pause_duration) ==
    LET s0 == [self EXCEPT !.frame_count = @ + 1]
        s1 == apply_heuristics(decay_scores(s0), vad, is_speech, arousal, rising, falling,
                               tempo, pause_duration)
        best == get_best_intent(s1)
    IN  [self |-> s1,
         out |-> [current_intent |-> best[1], intent_confidence |-> best[2]]]

\* a reset that leaves the scores
IntentPredictorResetKeepsScores(self) ==
    [self EXCEPT !.frame_count = 0]

\* IntentPredictor.reset
IntentPredictorReset(self) ==
    [self EXCEPT !.intent_scores = [i \in IntentSet |-> 0], !.frame_count = 0]

----------------------------------------------------------------------------
(* EarlyIntentPredictor: talkytalk/predictors/early_intent.py.  Confidences and *)
(* scores in hundredths.                                                        *)

\* Hypothesis(intent, confidence, first_seen_ms, last_updated_ms)
Hypothesis(intent, confidence, timestamp) ==
    [intent |-> intent, confidence |-> confidence, first_seen_ms |-> timestamp,
     last_updated_ms |-> timestamp, evidence_count |-> 1]

\* Hypothesis.stability_score
stability_score(h) ==
    LET age_factor == Min(100, (h.last_updated_ms - h.first_seen_ms) \div 5)
        evidence_factor == Min(100, h.evidence_count * 10)
    IN  (age_factor * 40 + evidence_factor * 30 + h.confidence * 30) \div 100

\* EarlyIntentState(): the hypotheses in the order the dict holds them
EarlyIntentState ==
    [hypotheses |-> <<>>, leading_hypothesis |-> "unknown", leading_confidence |-> 0,
     interruptibility |-> 0, hypothesis_stable |-> FALSE, frames_since_change |-> 0]

\* EarlyIntentPredictor.__init__
EarlyIntentPredictorInit(stability_threshold, confidence_momentum, hypothesis_timeout_ms) ==
    [kind |-> "early_intent",
     stability_threshold |-> stability_threshold,
     confidence_momentum |-> confidence_momentum,
     hypothesis_timeout_ms |-> hypothesis_timeout_ms,
     state |-> EarlyIntentState,
     confidence_history |-> <<>>]

\* EarlyIntentPredictor._prune_stale_hypotheses
prune_stale_hypotheses(self, timestamp) ==
    LET Fresh(h) == ~((timestamp - h.last_updated_ms) > self.hypothesis_timeout_ms)
    IN  [self EXCEPT !.state.hypotheses = SelectSeq(@, Fresh)]

\* EarlyIntentPredictor._update_hypothesis
update_hypothesis(self, intent, confidence, timestamp) ==
    LET hs == self.state.hypotheses
        Updated(h) ==
            IF h.intent = intent
            THEN [h EXCEPT !.confidence = (h.confidence * self.confidence_momentum
                                           + confidence * (100 - self.confidence_momentum))
                                          \div 100,
                           !.last_updated_ms = timestamp,
                           !.evidence_count = @ + 1]
            ELSE h
    IN  IF \E k \in 1..Len(hs) : hs[k].intent = intent
        THEN [self EXCEPT !.state.hypotheses = [k \in 1..Len(hs) |-> Updated(hs[k])]]
        ELSE [self EXCEPT !.state.hypotheses =
                              Append(hs, Hypothesis(intent, confidence, timestamp))]

\* max(hypotheses.values(), key=stability_score): the first of the most stable
most_stable(hs) ==
    hs[CHOOSE i \in 1..Len(hs) :
           /\ \A j \in 1..Len(hs) : stability_score(hs[j]) <= stability_score(hs[i])
           /\ \A j \in 1..(i - 1) : stability_score(hs[j]) < stability_score(hs[i])]

\* a selection that counts every frame, whether the leader changed or not
select_leading_hypothesis_counting(self) ==
    LET hs == self.state.hypotheses
        new_leader == IF hs = <<>> THEN "unknown" ELSE most_stable(hs).intent
        new_confidence == IF hs = <<>> THEN 0 ELSE most_stable(hs).confidence
    IN  [self EXCEPT !.state.frames_since_change = @ + 1,
                     !.state.leading_hypothesis = new_leader,
                     !.state.leading_confidence = new_confidence]

\* EarlyIntentPredictor._select_leading_hypothesis
select_leading_hypothesis(self) ==
    LET hs == self.state.hypotheses
        new_leader == IF hs = <<>> THEN "unknown" ELSE most_stable(hs).intent
        new_confidence == IF hs = <<>> THEN 0 ELSE most_stable(hs).confidence
    IN  [self EXCEPT !.state.frames_since_change =
                         IF new_leader # self.state.leading_hypothesis THEN 0 ELSE @ + 1,
                     !.state.leading_hypothesis = new_leader,
                     !.state.leading_confidence = new_confidence]

\* EarlyIntentPredictor._compute_interruptibility, from state.timing
compute_interruptibility(self, timing) ==
    LET hs == self.state.hypotheses
        held == {k \in 1..Len(hs) : hs[k].intent = self.state.leading_hypothesis}
        leading == hs[CHOOSE k \in held : TRUE]
        timing_factor == IF timing.interrupt_safe THEN 100
                         ELSE IF timing.user_paused THEN 50 ELSE 0
        speech_factor == 100 - timing.speech_likelihood
        interruptibility == (stability_score(leading) * 25
                             + self.state.leading_confidence * 25
                             + timing_factor * 30 + speech_factor * 20) \div 100
    IN  IF hs = <<>> \/ held = {} THEN [self EXCEPT !.state.interruptibility = 0]
        ELSE [self EXCEPT !.state.interruptibility = Min(100, Max(0, interruptibility))]

\* EarlyIntentPredictor._check_stability
check_stability(self) ==
    [self EXCEPT !.state.hypothesis_stable =
                     /\ self.state.frames_since_change >= self.stability_threshold
                     /\ self.state.leading_confidence > 50]

\* EarlyIntentPredictor.predict on a frame, from state.current_intent,
\* state.intent_confidence and state.timing
EarlyIntentPredictorPredict(self, timestamp, current_intent, current_confidence, timing) ==
    LET s1 == prune_stale_hypotheses(self, timestamp)
        s2 == update_hypothesis(s1, current_intent, current_confidence, timestamp)
        s3 == select_leading_hypothesis(s2)
        s4 == compute_interruptibility(s3, timing)
        s5 == check_stability(s4)
    IN  [self |-> s5,
         out |-> [leading_intent |-> s5.state.leading_hypothesis,
                  leading_confidence |-> s5.state.leading_confidence,
                  interruptibility |-> s5.state.interruptibility,
                  hypothesis_stable |-> s5.state.hypothesis_stable,
                  active_hypotheses |-> Len(s5.state.hypotheses),
                  frames_since_change |-> s5.state.frames_since_change]]

\* state.analysis_results["early_intent"] = EarlyIntentResult(data=...)
Publish(results, name, data) ==
    [n \in DOMAIN results \cup {name} |-> IF n = name THEN [data |-> data] ELSE results[n]]

\* a predict that also writes its leading hypothesis into the state as the intent
predict_early_intent_overwrites(self, timestamp, st) ==
    LET r == EarlyIntentPredictorPredict(self, timestamp, st.current_intent,
                                         st.intent_confidence, st.timing)
    IN  [self |-> r.self,
         state |-> [st EXCEPT !.current_intent = r.out.leading_intent,
                              !.intent_confidence = r.out.leading_confidence,
                              !.analysis_results = Publish(@, "early_intent", r.out)]]

\* EarlyIntentPredictor.predict(context, state): the predictor and the state it leaves
predict_early_intent(self, timestamp, st) ==
    LET r == EarlyIntentPredictorPredict(self, timestamp, st.current_intent,
                                         st.intent_confidence, st.timing)
    IN  [self |-> r.self,
         state |-> [st EXCEPT !.analysis_results = Publish(@, "early_intent", r.out)]]

\* EarlyIntentPredictor.reset
EarlyIntentPredictorReset(self) ==
    [self EXCEPT !.state = EarlyIntentState, !.confidence_history = <<>>]

----------------------------------------------------------------------------
(* A component that has seen some frames is reset, and then fed the frames a newly *)
(* constructed one (twin) is fed.                                                  *)

MaxHistory == 2
MaxReplay == 2

Components == {"vad", "prosody", "emotion", "language", "intent", "timing",
               "early_intent", "turn_taking"}

\* the instances explored: the defaults of each class, and a variant where thresholds
\* fall within a few frames
Constructed(kind) ==
    CASE kind = "vad" -> {VADAnalyzerInit(-40000, 5, TRUE), VADAnalyzerInit(-40000, 1, FALSE)}
      [] kind = "prosody" -> {ProsodyAnalyzerInit(200)}
      [] kind = "emotion" -> {EmotionAnalyzerInit(30)}
      [] kind = "language" -> {LanguageAnalyzerInit("unknown"), LanguageAnalyzerInit("en")}
      [] kind = "intent" -> {IntentPredictorInit(30, 95)}
      [] kind = "timing" -> {TimingPredictorInit(300, 700, 60), TimingPredictorInit(40, 600, 60)}
      [] kind = "early_intent" -> {EarlyIntentPredictorInit(5, 80, 2000),
                                   EarlyIntentPredictorInit(1, 80, 100)}
      [] kind = "turn_taking" -> {TurnTakingPredictorInit(200, 500, 2000),
                                  TurnTakingPredictorInit(40, 60, 100)}

\* the constructor call that made self
Fresh(self) ==
    CASE self.kind = "vad" ->
             VADAnalyzerInit(self.energy_threshold_db, self.hangover_frames, self.adaptive)
      [] self.kind = "prosody" -> ProsodyAnalyzerInit(self.pause_threshold_ms)
      [] self.kind = "emotion" -> EmotionAnalyzerInit(self.smoothing_alpha)
      [] self.kind = "language" -> LanguageAnalyzerInit(self.default_language)
      [] self.kind = "intent" -> IntentPredictorInit(self.confidence_threshold, self.decay_rate)
      [] self.kind = "timing" ->
             TimingPredictorInit(self.pause_threshold_ms, self.turn_end_threshold_ms,
                                 self.interrupt_confidence)
      [] self.kind = "early_intent" ->
             EarlyIntentPredictorInit(self.stability_threshold, self.confidence_momentum,
                                      self.hypothesis_timeout_ms)
      [] self.kind = "turn_taking" ->
             TurnTakingPredictorInit(self.min_turn_gap_ms, self.safe_interrupt_gap_ms,
                                     self.max_wait_ms)

\* what a frame, and the state the earlier components left for it, hand to a component
FrameFeatures(kind) ==
    CASE kind = "vad" ->
             {[energy_db |-> e, zcr |-> z] : e \in {-80000, -20000}, z \in {10, 60}}
      [] kind = "prosody" ->
             {[is_speech |-> sp, pitch |-> pt, tempo |-> 0] :
                  sp \in BOOLEAN, pt \in {0, 100, 200}}
      [] kind = "emotion" ->
             {[energy_db |-> e, pitch_hz |-> pt, pitch_variance |-> 0, tempo |-> 0,
               rising |-> r] : e \in {-80000, -20000}, pt \in {0, 200}, r \in BOOLEAN}
      [] kind = "language" -> {[language |-> "none"]}
      [] kind = "intent" ->
             {[vad |-> v, is_speech |-> sp, arousal |-> 5000, rising |-> r, falling |-> FALSE,
               tempo |-> 0, pause_duration |-> 0] :
                  v \in BOOLEAN, sp \in BOOLEAN, r \in BOOLEAN}
             \cup {[vad |-> TRUE, is_speech |-> TRUE, arousal |-> 8000, rising |-> FALSE,
                    falling |-> TRUE, tempo |-> 5, pause_duration |-> 400]}
      [] kind = "timing" ->
             {[is_speech |-> sp, prosody |-> pr, intent_confidence |-> 0] :
                  sp \in BOOLEAN, pr \in {"flat", "rising"}}
      [] kind = "early_intent" ->
             {[current_intent |-> i, intent_confidence |-> c, timing |-> t] :
                  i \in {"query", "unknown"}, c \in {30, 80},
                  t \in {Timing(FALSE, FALSE, 100, 0), Timing(TRUE, TRUE, 0, 800)}}
      [] kind = "turn_taking" ->
             {[is_speech |-> sp, prosody |-> pr] : sp \in BOOLEAN, pr \in {"flat", "falling"}}

\* analyze or predict on one frame: the component it leaves and what it reports
Exercise(self, timestamp, x) ==
    CASE self.kind = "vad" -> VADAnalyzerAnalyze(self, x.energy_db, x.zcr)
      [] self.kind = "prosody" ->
             ProsodyAnalyzerAnalyze(self, timestamp, x.is_speech, x.pitch, x.tempo)
      [] self.kind = "emotion" ->
             EmotionAnalyzerAnalyze(self, x.energy_db, x.pitch_hz, x.pitch_variance, x.tempo,
                                    x.rising)
      [] self.kind = "language" -> LanguageAnalyzerAnalyze(self)
      [] self.kind = "intent" ->
             IntentPredictorPredict(self, x.vad, x.is_speech, x.arousal, x.rising, x.falling,
                                    x.tempo, x.pause_duration)
      [] self.kind = "timing" ->
             LET r == TimingPredictorPredict(self, timestamp, x.is_speech, x.prosody,
                                             x.intent_confidence)
             IN  [self |-> r.self, out |-> [timing |-> r.timing,
                                            speech_active |-> r.speech_active]]
      [] self.kind = "early_intent" ->
             EarlyIntentPredictorPredict(self, timestamp, x.current_intent,
                                         x.intent_confidence, x.timing)
      [] self.kind = "turn_taking" ->
             LET r == TurnTakingPredictorPredict(self, timestamp, x.is_speech, x.prosody)
             IN  [self |-> r.self, out |-> r.signal]

\* component.reset()
ResetOf(self) ==
    CASE self.kind = "vad" -> VADAnalyzerReset(self)
      [] self.kind = "prosody" -> ProsodyAnalyzerReset(self)
      [] self.kind = "emotion" -> EmotionAnalyzerReset(self)
      [] self.kind = "language" -> LanguageAnalyzerReset(self)
      [] self.kind = "intent" -> IntentPredictorReset(self)
      [] self.kind = "timing" -> TimingPredictorReset(self)
      [] self.kind = "early_intent" -> EarlyIntentPredictorReset(self)
      [] self.kind = "turn_taking" -> TurnTakingPredictorReset(self)

NoOut == [none |-> TRUE]

InitComponent ==
    /\ PipeIdle
    /\ unit \in Components
    /\ inst \in Constructed(unit)
    /\ twin = NoInst
    /\ phase = "history"
    /\ clock = 0
    /\ obs = [op |-> "none", n |-> 0, m |-> 0, dirty |-> FALSE, out |-> NoOut,
              twin_out |-> NoOut]

\* the component analyzes (or predicts on) the next frame of a stream
Feed ==
    /\ phase = "history"
    /\ obs.n < MaxHistory
    /\ \E step \in FrameSteps, x \in FrameFeatures(unit) :
          LET ts == IF obs.n = 0 THEN 0 ELSE clock + step
              r == Exercise(inst, ts, x)
          IN  /\ inst' = r.self
              /\ clock' = ts
              /\ obs' = [obs EXCEPT !.op = "feed", !.n = @ + 1, !.out = r.out]
    /\ UNCHANGED <<unit, twin, phase>>
    /\ UNCHANGED pipevars

\* component.reset(), and a second instance constructed the same way; the frames that
\* follow continue the stream or start a new one
ResetComponent ==
    /\ phase = "history"
    /\ inst' = ResetOf(inst)
    /\ twin' = Fresh(inst)
    /\ phase' = "replay"
    /\ clock' \in {0, clock}
    /\ obs' = [obs EXCEPT !.op = "reset", !.dirty = (inst # Fresh(inst)), !.out = NoOut]
    /\ UNCHANGED unit
    /\ UNCHANGED pipevars

\* both instances are handed the same frame
FeedBoth ==
    /\ phase = "replay"
    /\ obs.m < MaxReplay
    /\ \E step \in FrameSteps, x \in FrameFeatures(unit) :
          LET ts == IF obs.m = 0 /\ clock = 0 THEN 0 ELSE clock + step
              r == Exercise(inst, ts, x)
              t == Exercise(twin, ts, x)
          IN  /\ inst' = r.self
              /\ twin' = t.self
              /\ clock' = ts
              /\ obs' = [obs EXCEPT !.op = "replay", !.m = @ + 1, !.out = r.out,
                                    !.twin_out = t.out]
    /\ UNCHANGED <<unit, phase>>
    /\ UNCHANGED pipevars

NextComponent == Feed \/ ResetComponent \/ FeedBoth

SpecComponent == InitComponent /\ [][NextComponent]_vars

----------------------------------------------------------------------------
(* A pipeline with a VADAnalyzer and an IntentPredictor processes some frames, is  *)
(* reset, and is then fed the frames a newly built pipeline (twin) is fed.         *)

\* the components a pipeline holds in self._analyzers and self._predictors
Held == [kind |-> "held", vad |-> VADAnalyzerInit(-40000, 5, TRUE),
         intent |-> IntentPredictorInit(30, 95)]

\* Pipeline(config) followed by add_analyzer(VADAnalyzer()), add_predictor(IntentPredictor())
Built(cfg) == [PipelineInit(cfg) EXCEPT !.analyzers = <<"vad">>, !.predictors = <<"intent">>]

\* the frames of the stream: silence, or a voiced sound
FrameSounds == {[energy_db |-> -80000, zcr |-> 10], [energy_db |-> -20000, zcr |-> 10]}

\* process_frame(frame) on a pipeline holding the components comps: each component is
\* called on the frame and its result handed on as process_frame does
ProcessWith(self, comps, frame, x) ==
    LET v == VADAnalyzerAnalyze(comps.vad, x.energy_db, x.zcr)
        i == IntentPredictorPredict(comps.intent, TRUE, v.out.is_speech, 5000, FALSE, FALSE,
                                    0, 0)
        inp == [a |-> [n \in AnalyzerNames |->
                          IF n = "vad"
                          THEN [raises |-> FALSE, data |-> [is_speech |-> v.out.is_speech]]
                          ELSE Skipped],
                p |-> [n \in PredictorNames |->
                          IF n = "intent"
                          THEN [raises |-> "no", intent |-> i.out.current_intent,
                                confidence |-> i.out.intent_confidence \div 100]
                          ELSE NotRun],
                stop_during |-> FALSE, cb |-> AllReturn]
        r == process_frame(self, frame, inp)
    IN  [self |-> r.self,
         comps |-> [comps EXCEPT !.vad = v.self, !.intent = i.self],
         out |-> [ret |-> r.ret, gate |-> r.gate, packet |-> r.packet]]

InitReplay ==
    /\ pipeline \in {Built(cfg) : cfg \in Configs}
    /\ driver = "none"
    /\ pc = "idle"
    /\ source = NoSource
    /\ run = NoRun
    /\ delivered = <<>>
    /\ nframes = 0
    /\ last = NoLast
    /\ unit = "pipeline"
    /\ inst = Held
    /\ twin = NoInst
    /\ phase = "history"
    /\ clock = 0
    /\ obs = [op |-> "none", n |-> 0, m |-> 0, dirty |-> FALSE, out |-> NoOut,
              twin_out |-> NoOut]

\* pipeline.process_frame on the next frame of a stream
ReplayFeed ==
    /\ phase = "history"
    /\ obs.n < MaxHistory
    /\ \E x \in FrameSounds :
          LET r == ProcessWith(pipeline, inst, SourceFrame(obs.n), x)
          IN  /\ pipeline' = r.self
              /\ inst' = r.comps
              /\ obs' = [obs EXCEPT !.op = "feed", !.n = @ + 1, !.out = r.out]
    /\ UNCHANGED <<driver, pc, source, run, delivered, nframes, last>>
    /\ UNCHANGED <<unit, twin, phase, clock>>

\* pipeline.reset(), which leaves the registered components as they are; and a second
\* pipeline built the same way
ReplayReset ==
    /\ phase = "history"
    /\ pipeline' = reset(pipeline)
    /\ twin' = [kind |-> "pipeline", pipeline |-> Built(pipeline.config), comps |-> Held]
    /\ phase' = "replay"
    /\ obs' = [obs EXCEPT !.op = "reset", !.dirty = (inst # Held), !.out = NoOut]
    /\ UNCHANGED <<driver, pc, source, run, delivered, nframes, last>>
    /\ UNCHANGED <<unit, inst, clock>>

\* both pipelines process the next frame of the same stream
ReplayBoth ==
    /\ phase = "replay"
    /\ obs.m < MaxReplay
    /\ \E x \in FrameSounds :
          LET r == ProcessWith(pipeline, inst, SourceFrame(obs.m), x)
              t == ProcessWith(twin.pipeline, twin.comps, SourceFrame(obs.m), x)
          IN  /\ pipeline' = r.self
              /\ inst' = r.comps
              /\ twin' = [twin EXCEPT !.pipeline = t.self, !.comps = t.comps]
              /\ obs' = [obs EXCEPT !.op = "replay", !.m = @ + 1, !.out = r.out,
                                    !.twin_out = t.out]
    /\ UNCHANGED <<driver, pc, source, run, delivered, nframes, last>>
    /\ UNCHANGED <<unit, phase, clock>>

NextReplay == ReplayFeed \/ ReplayReset \/ ReplayBoth

SpecReplay == InitReplay /\ [][NextReplay]_vars

----------------------------------------------------------------------------
(* Packets: a TimingPredictor follows a stream whose timestamps never decrease, and *)
(* an IntentPacket is built from the Timing it wrote and from any confidence,       *)
(* arousal and valence, in range or not.                                            *)

MaxPacketFrames == 3

\* values handed to the constructors: below 0, within [0, 1], above 1
RawValues == {-50, 50, 150}
\* the time between two frames: none, a frame, a pause
PacketSteps == {0, 20, 300}

InitPacket ==
    /\ PipeIdle
    /\ unit = "packet"
    /\ inst = TimingPredictorInit(300, 700, 60)
    /\ twin = NoInst
    /\ phase = "history"
    /\ clock = 0
    /\ obs = [op |-> "none", n |-> 0, timing |-> Timing(FALSE, FALSE, 100, 0),
              raw |-> [confidence |-> 0, arousal |-> 0, valence |-> 0],
              packet |-> NoPacket]

\* TimingPredictor.predict on the next frame: state.timing = Timing(...)
PacketFrame ==
    /\ unit = "packet"
    /\ obs.n < MaxPacketFrames
    /\ \E step \in PacketSteps, sp \in BOOLEAN :
          LET ts == clock + step
              r == TimingPredictorPredict(inst, ts, sp, "none", 0)
          IN  /\ inst' = r.self
              /\ clock' = ts
              /\ obs' = [obs EXCEPT !.op = "predict", !.n = @ + 1, !.timing = r.timing,
                                    !.raw = [confidence |-> 0, arousal |-> 0, valence |-> 0],
                                    !.packet = NoPacket]
    /\ UNCHANGED <<unit, twin, phase>>
    /\ UNCHANGED pipevars

\* IntentPacket(intent=..., confidence=c, emotion=Emotion(a, v), timing=state.timing, ...)
PacketBuild ==
    /\ unit = "packet"
    /\ obs.n > 0
    /\ \E c \in RawValues, a \in RawValues, v \in RawValues :
          LET built == IntentPacketNew(
                           [intent |-> "query", confidence |-> c, language |-> "unknown",
                            target_language |-> "None", emotion |-> Emotion(a, v),
                            timing |-> obs.timing, frame_id |-> obs.n - 1,
                            timestamp_ms |-> clock])
          IN  obs' = [obs EXCEPT !.op = "packet", !.packet = built.packet,
                                 !.raw = [confidence |-> c, arousal |-> a, valence |-> v]]
    /\ UNCHANGED <<unit, inst, twin, phase, clock>>
    /\ UNCHANGED pipevars

NextPacket == PacketFrame \/ PacketBuild

SpecPacket == InitPacket /\ [][NextPacket]_vars

----------------------------------------------------------------------------
(* A pipeline holding a VADAnalyzer, a TimingPredictor and (or not) an            *)
(* IntentPredictor processes a stream: a sine tone, then silence, then a sine     *)
(* tone again, one frame every frame duration from timestamp 0.                   *)

\* the streams, by the length in ms of the first tone, the silence and the second tone
Streams == {<<300, 500, 200>>, <<0, 500, 0>>}
StreamLength(d) == d[1] + d[2] + d[3]
Region(d, timestamp) ==
    IF timestamp < d[1] THEN "speech1"
    ELSE IF timestamp < d[1] + d[2] THEN "silence"
    ELSE IF timestamp < StreamLength(d) THEN "speech2" ELSE "end"

\* SineSource (amplitude 0.5) and SilenceSource as the VADAnalyzer measures their frames
SineSource == [energy_db |-> -9000, zcr |-> 2]
SilenceSource == [energy_db |-> -200000, zcr |-> 0]

\* VADAnalyzer(), IntentPredictor(), TimingPredictor() with their default parameters
HeldTiming ==
    [kind |-> "held", vad |-> VADAnalyzerInit(-40000, 5, TRUE),
     intent |-> IntentPredictorInit(30, 95), timing |-> TimingPredictorInit(300, 700, 60)]

\* Pipeline(config) followed by add_analyzer(VADAnalyzer()) and add_predictor of each
\* predictor of preds
BuiltWith(cfg, preds) == [PipelineInit(cfg) EXCEPT !.analyzers = <<"vad">>, !.predictors = preds]

\* the results the held components hand to process_frame
HeldInputs(v, has_intent, i, t) ==
    [a |-> [n \in AnalyzerNames |->
               IF n = "vad" THEN [raises |-> FALSE, data |-> [is_speech |-> v.out.is_speech]]
               ELSE Skipped],
     p |-> [n \in PredictorNames |->
               IF n = "intent"
               THEN IF has_intent
                    THEN [raises |-> "no", intent |-> i.out.current_intent,
                          confidence |-> i.out.intent_confidence \div 100]
                    ELSE NotRun
               ELSE [raises |-> "no", intent |-> "unknown", confidence |-> 0,
                     timing |-> [b \in BOOLEAN |-> t.timing]]],
     stop_during |-> FALSE, cb |-> AllReturn]

\* the pipeline and the components a call leaves, and what the call did
HeldOutcome(comps, v, has_intent, i, t, r) ==
    [self |-> r.self,
     comps |-> [comps EXCEPT !.vad = v.self,
                             !.intent = IF has_intent THEN i.self ELSE @,
                             !.timing = t.self],
     out |-> [ret |-> r.ret, gate |-> r.gate, exc |-> r.exc, packet |-> r.packet,
              is_speech |-> v.out.is_speech]]

\* the emit check follows the predictors
HeldEmit(self, comps, frame, v, has_intent, i, t) ==
    HeldOutcome(comps, v, has_intent, i, t,
                process_frame(self, frame, HeldInputs(v, has_intent, i, t)))

\* the TimingPredictor reads the confidence the state holds by then
HeldTimed(self, comps, frame, v, has_intent, i) ==
    HeldEmit(self, comps, frame, v, has_intent, i,
             TimingPredictorPredict(comps.timing, frame.timestamp_ms, v.out.is_speech, "none",
                 IF has_intent THEN i.out.intent_confidence \div 100
                 ELSE self.state.intent_confidence))

\* the IntentPredictor, when registered, reads the vad result of this frame
HeldPredicted(self, comps, frame, v, has_intent) ==
    HeldTimed(self, comps, frame, v, has_intent,
              IntentPredictorPredict(comps.intent, TRUE, v.out.is_speech, 5000, FALSE, FALSE,
                                     0, 0))

\* process_frame(frame) on a pipeline holding the components comps: the analyzer, then
\* the registered predictors in order, each reading what the state holds by then
ProcessHeld(self, comps, frame, x) ==
    HeldPredicted(self, comps, frame, VADAnalyzerAnalyze(comps.vad, x.energy_db, x.zcr),
                  "intent" \in Registered(self.predictors))

NoFrameOut ==
    [ret |-> "none", gate |-> FALSE, exc |-> "none", packet |-> NoPacket, is_speech |-> FALSE]

\* the caller either calls process_frame frame by frame, going on after a call that
\* raised, or iterates run_sync, which an exception of process_frame ends
InitStream ==
    /\ \E cfg \in [emit_interval_ms : {50, 100}, min_confidence_to_emit : {0},
                   buffer_duration_ms : BufferDurations],
          preds \in {<<"intent", "timing">>, <<"timing">>} :
          pipeline = BuiltWith(cfg, preds)
    /\ driver = "none"
    /\ pc = "idle"
    /\ source = NoSource
    /\ run = NoRun
    /\ delivered = <<>>
    /\ nframes = 0
    /\ last = NoLast
    /\ unit = "stream"
    /\ inst = HeldTiming
    /\ twin = NoInst
    /\ phase \in {"process_frame", "run_sync"}
    /\ clock = 0
    /\ \E d \in Streams :
          obs = [op |-> "none", stream |-> d, n |-> 0, region |-> "none", out |-> NoFrameOut,
                 gates |-> 0, packets |-> 0, last_packet |-> NoPacket,
                 safe_in_silence |-> FALSE, unsafe_in_speech2 |-> FALSE, ended |-> "none"]

\* what is noted of a call: the packets emitted, and in which part of the stream
Observe(o, reg, out, style) ==
    [o EXCEPT
        !.op = "frame", !.n = @ + 1, !.region = reg, !.out = out,
        !.gates = @ + (IF out.gate THEN 1 ELSE 0),
        !.packets = @ + (IF out.ret = "packet" THEN 1 ELSE 0),
        !.last_packet = IF out.ret = "packet" THEN out.packet ELSE @,
        !.safe_in_silence =
            @ \/ (out.ret = "packet" /\ reg = "silence" /\ out.packet.timing.interrupt_safe),
        !.unsafe_in_speech2 =
            @ \/ (out.ret = "packet" /\ reg = "speech2" /\ ~out.packet.timing.interrupt_safe),
        !.ended = IF style = "run_sync" /\ out.exc # "none" THEN out.exc ELSE "none"]

\* the next frame of the stream is processed
StreamFrame ==
    /\ unit = "stream"
    /\ obs.ended = "none"
    /\ obs.n * frame_duration_ms < StreamLength(obs.stream)
    /\ \E reg \in {Region(obs.stream, obs.n * frame_duration_ms)} :
       \E r \in {ProcessHeld(pipeline, inst, SourceFrame(obs.n),
                             IF reg = "silence" THEN SilenceSource ELSE SineSource)} :
          /\ pipeline' = r.self
          /\ inst' = r.comps
          /\ obs' = Observe(obs, reg, r.out, phase)
    /\ UNCHANGED <<driver, pc, source, run, delivered, nframes, last>>
    /\ UNCHANGED <<unit, twin, phase, clock>>

\* the source is exhausted: the iteration ends
StreamEnd ==
    /\ unit = "stream"
    /\ obs.ended = "none"
    /\ obs.n * frame_duration_ms >= StreamLength(obs.stream)
    /\ obs' = [obs EXCEPT !.op = "end", !.ended = "exhausted"]
    /\ UNCHANGED pipevars
    /\ UNCHANGED <<unit, inst, twin, phase, clock>>

NextStream == StreamFrame \/ StreamEnd

SpecStream == InitStream /\ [][NextStream]_vars

----------------------------------------------------------------------------
(* A pipeline holding the provided analyzers (some or all of VADAnalyzer,          *)
(* ProsodyAnalyzer, EmotionAnalyzer, LanguageAnalyzer, in that order) and some of  *)
(* IntentPredictor and TimingPredictor processes a few frames.                     *)

MaxPublishFrames == 3

\* the components as constructed, with their default parameters
HeldAll(language) ==
    [kind |-> "held", vad |-> VADAnalyzerInit(-40000, 5, TRUE),
     prosody |-> ProsodyAnalyzerInit(200), emotion |-> EmotionAnalyzerInit(30),
     language |-> LanguageAnalyzerInit(language),
     intent |-> IntentPredictorInit(30, 95), timing |-> TimingPredictorInit(300, 700, 60)]

Has(self, n) == n \in Registered(self.analyzers)

\* the frames: silence, a low voice, a high voice
PublishSounds ==
    {[energy_db |-> -80000, zcr |-> 10, pitch |-> 0],
     [energy_db |-> -20000, zcr |-> 10, pitch |-> 100],
     [energy_db |-> -5000, zcr |-> 10, pitch |-> 300]}

\* result.data of each registered analyzer, as handed to process_frame
AllInputs(self, v, pr, e, l, i, t) ==
    [a |-> [n \in AnalyzerNames |->
               IF ~Has(self, n) THEN Skipped
               ELSE [raises |-> FALSE,
                     data |-> CASE n = "vad" -> [is_speech |-> v.out.is_speech]
                                [] n = "prosody" -> pr.out
                                [] n = "emotion" -> [arousal |-> e.out.arousal \div 100,
                                                      valence |-> e.out.valence \div 100]
                                [] n = "language" -> l.out]],
     p |-> [n \in PredictorNames |->
               IF n \notin Registered(self.predictors) THEN NotRun
               ELSE IF n = "intent"
               THEN [raises |-> "no", intent |-> i.out.current_intent,
                     confidence |-> i.out.intent_confidence \div 100]
               ELSE [raises |-> "no", intent |-> "unknown", confidence |-> 0,
                     timing |-> [b \in BOOLEAN |-> t.timing]]],
     stop_during |-> FALSE, cb |-> AllReturn]

\* the pipeline and the components a call leaves: a component that is not registered
\* is not called
AllOutcome(self, comps, v, pr, e, l, i, t, r) ==
    [self |-> r.self,
     comps |-> [comps EXCEPT
                   !.vad = IF Has(self, "vad") THEN v.self ELSE @,
                   !.prosody = IF Has(self, "prosody") THEN pr.self ELSE @,
                   !.emotion = IF Has(self, "emotion") THEN e.self ELSE @,
                   !.language = IF Has(self, "language") THEN l.self ELSE @,
                   !.intent = IF "intent" \in Registered(self.predictors) THEN i.self ELSE @,
                   !.timing = IF "timing" \in Registered(self.predictors) THEN t.self ELSE @],
     out |-> [ret |-> r.ret, gate |-> r.gate, exc |-> r.exc]]

AllEmit(self, comps, frame, v, pr, e, l, i, t) ==
    AllOutcome(self, comps, v, pr, e, l, i, t,
               process_frame(self, frame, AllInputs(self, v, pr, e, l, i, t)))

\* TimingPredictor.predict reads the vad and prosody results and the confidence in the state
AllTimed(self, comps, frame, v, pr, e, l, i) ==
    AllEmit(self, comps, frame, v, pr, e, l, i,
            TimingPredictorPredict(comps.timing, frame.timestamp_ms,
                Has(self, "vad") /\ v.out.is_speech,
                IF ~Has(self, "prosody") THEN "none"
                ELSE IF pr.out.is_rising_intonation THEN "rising"
                ELSE IF pr.out.is_falling_intonation THEN "falling" ELSE "flat",
                IF "intent" \in Registered(self.predictors)
                THEN i.out.intent_confidence \div 100 ELSE self.state.intent_confidence))

\* IntentPredictor.predict reads the vad, emotion and prosody results
AllPredicted(self, comps, frame, v, pr, e, l) ==
    AllTimed(self, comps, frame, v, pr, e, l,
             IntentPredictorPredict(comps.intent, Has(self, "vad"),
                 Has(self, "vad") /\ v.out.is_speech,
                 IF Has(self, "emotion") THEN e.out.arousal ELSE 5000,
                 Has(self, "prosody") /\ pr.out.is_rising_intonation,
                 Has(self, "prosody") /\ pr.out.is_falling_intonation,
                 IF Has(self, "prosody") THEN pr.out.tempo ELSE 0,
                 IF Has(self, "prosody") THEN pr.out.pause_duration_ms ELSE 0))

\* EmotionAnalyzer.analyze reads the vad and prosody results
AllEmotion(self, comps, frame, v, pr) ==
    AllPredicted(self, comps, frame, v, pr,
                 EmotionAnalyzerAnalyze(comps.emotion,
                     IF Has(self, "vad") THEN v.out.energy_db ELSE -60000,
                     IF Has(self, "prosody") THEN pr.out.pitch_hz ELSE 0,
                     IF Has(self, "prosody") THEN pr.out.pitch_variance ELSE 0,
                     IF Has(self, "prosody") THEN pr.out.tempo ELSE 0,
                     Has(self, "prosody") /\ pr.out.is_rising_intonation),
                 LanguageAnalyzerAnalyze(comps.language))

\* ProsodyAnalyzer.analyze reads the vad result (speech when there is none)
AllProsody(self, comps, frame, x, v) ==
    AllEmotion(self, comps, frame, v,
               ProsodyAnalyzerAnalyze(comps.prosody, frame.timestamp_ms,
                   Has(self, "vad") => v.out.is_speech, x.pitch, 0))

\* process_frame(frame) on a pipeline holding the components comps
ProcessAll(self, comps, frame, x) ==
    AllProsody(self, comps, frame, x, VADAnalyzerAnalyze(comps.vad, x.energy_db, x.zcr))

InitPublish ==
    /\ \E as \in {<<>>, <<"vad">>, <<"emotion", "language">>, <<"vad", "prosody", "emotion">>,
                   <<"vad", "prosody", "emotion", "language">>},
          ps \in {<<>>, <<"intent">>, <<"timing">>, <<"intent", "timing">>} :
          pipeline = [PipelineInit([emit_interval_ms |-> 40, min_confidence_to_emit |-> 0,
                                    buffer_duration_ms |-> 40])
                         EXCEPT !.analyzers = as, !.predictors = ps]
    /\ driver = "none"
    /\ pc = "idle"
    /\ source = NoSource
    /\ run = NoRun
    /\ delivered = <<>>
    /\ nframes = 0
    /\ last = NoLast
    /\ unit = "publish"
    /\ inst \in {HeldAll("unknown"), HeldAll("en")}
    /\ twin = NoInst
    /\ phase = "frames"
    /\ clock = 0
    /\ obs = [op |-> "none", n |-> 0, out |-> [ret |-> "none", gate |-> FALSE, exc |-> "none"]]

\* pipeline.process_frame on the next frame
PublishFrame ==
    /\ unit = "publish"
    /\ obs.n < MaxPublishFrames
    /\ \E x \in PublishSounds :
       \E r \in {ProcessAll(pipeline, inst, SourceFrame(obs.n), x)} :
          /\ pipeline' = r.self
          /\ inst' = r.comps
          /\ obs' = [obs EXCEPT !.op = "frame", !.n = @ + 1, !.out = r.out]
    /\ UNCHANGED <<driver, pc, source, run, delivered, nframes, last>>
    /\ UNCHANGED <<unit, twin, phase, clock>>

NextPublish == PublishFrame

SpecPublish == InitPublish /\ [][NextPublish]_vars

----------------------------------------------------------------------------
(* The data types used directly: an Emotion and an IntentPacket are constructed    *)
(* from given values and their derived properties are read.                        *)

\* the values given to the constructors (hundredths), in range and out of it
EmotionLevels == {-25, 0, 25, 50, 75, 100, 125}
PacketConfidences == {-10, 0, 40, 59, 60, 61, 70, 100, 150}
\* the members of Intent, and a string that is none of them
PacketIntents == IntentSet \cup {"custom"}

InitData ==
    /\ PipeIdle
    /\ unit = "data"
    /\ inst = [kind |-> "none"]
    /\ twin = NoInst
    /\ phase = "idle"
    /\ clock = 0
    /\ obs = [op |-> "none"]

\* Emotion(arousal=a, valence=v).quadrant
ReadQuadrant ==
    /\ unit = "data"
    /\ \E a \in EmotionLevels, v \in EmotionLevels :
       \E e \in {Emotion(a, v)} :
          obs' = [op |-> "quadrant", arousal |-> a, valence |-> v, emotion |-> e,
                  quadrant |-> quadrant(e)]
    /\ UNCHANGED pipevars
    /\ UNCHANGED <<unit, inst, twin, phase, clock>>

\* IntentPacket(intent=i, confidence=c).is_actionable
ReadActionable ==
    /\ unit = "data"
    /\ \E i \in PacketIntents, c \in PacketConfidences :
       \E b \in {IntentPacketNew([intent |-> i, confidence |-> c])} :
          obs' = [op |-> "is_actionable", given |-> c, packet |-> b.packet,
                  is_actionable |-> is_actionable(b.packet)]
    /\ UNCHANGED pipevars
    /\ UNCHANGED <<unit, inst, twin, phase, clock>>

NextData == ReadQuadrant \/ ReadActionable

SpecData == InitData /\ [][NextData]_vars

----------------------------------------------------------------------------
(* A VADAnalyzer used directly: constructed, then analyze on frame after frame,    *)
(* with reset at any point.                                                        *)

MaxVadFrames == 8

\* the frames: silence, a voiced sound, and a loud sound that crosses zero too often
VadSounds ==
    {[energy_db |-> -80000, zcr |-> 10], [energy_db |-> -20000, zcr |-> 10],
     [energy_db |-> -20000, zcr |-> 60]}

InitVad ==
    /\ PipeIdle
    /\ unit = "vad"
    /\ inst \in {VADAnalyzerInit(-40000, h, a) : h \in {0, 1, 5}, a \in BOOLEAN}
    /\ twin = NoInst
    /\ phase = "idle"
    /\ clock = 0
    /\ obs = [op |-> "none", n |-> 0]

\* analyzer.analyze(frame, buffer, state)
VadAnalyze ==
    /\ unit = "vad"
    /\ obs.n < MaxVadFrames
    /\ \E x \in VadSounds :
       \E r \in {VADAnalyzerAnalyze(inst, x.energy_db, x.zcr)} :
          /\ inst' = r.self
          /\ obs' = [op |-> "analyze", n |-> obs.n + 1, zcr |-> x.zcr, before |-> inst,
                      out |-> r.out]
    /\ UNCHANGED pipevars
    /\ UNCHANGED <<unit, twin, phase, clock>>

\* analyzer.reset()
VadReset ==
    /\ unit = "vad"
    /\ obs.op = "analyze"
    /\ inst' = VADAnalyzerReset(inst)
    /\ obs' = [op |-> "reset", n |-> obs.n]
    /\ UNCHANGED pipevars
    /\ UNCHANGED <<unit, twin, phase, clock>>

NextVad == VadAnalyze \/ VadReset

SpecVad == InitVad /\ [][NextVad]_vars

----------------------------------------------------------------------------
(* An IntentPredictor used directly: constructed, then predict on frame after      *)
(* frame.                                                                          *)

MaxIntentFrames == 4

\* what a frame's context holds for the predictor: no speech; speech with a neutral
\* voice; a rising intonation; an aroused, falling, fast voice; speech after a pause;
\* and two frames with the arousal, the tempo and the pause on their thresholds
IntentFrames ==
    {[is_speech |-> FALSE, arousal |-> 5000, rising |-> FALSE, falling |-> FALSE,
      tempo |-> 0, pause_duration |-> 0],
     [is_speech |-> TRUE, arousal |-> 5000, rising |-> FALSE, falling |-> FALSE,
      tempo |-> 0, pause_duration |-> 0],
     [is_speech |-> TRUE, arousal |-> 8000, rising |-> TRUE, falling |-> FALSE,
      tempo |-> 0, pause_duration |-> 0],
     [is_speech |-> TRUE, arousal |-> 8000, rising |-> FALSE, falling |-> TRUE,
      tempo |-> 5, pause_duration |-> 0],
     [is_speech |-> TRUE, arousal |-> 2000, rising |-> FALSE, falling |-> FALSE,
      tempo |-> 0, pause_duration |-> 400],
     [is_speech |-> TRUE, arousal |-> 7000, rising |-> FALSE, falling |-> TRUE,
      tempo |-> 4, pause_duration |-> 300],
     [is_speech |-> TRUE, arousal |-> 3000, rising |-> FALSE, falling |-> FALSE,
      tempo |-> 0, pause_duration |-> 1000]}

InitIntent ==
    /\ PipeIdle
    /\ unit = "intent"
    /\ inst \in {IntentPredictorInit(30, d) : d \in {50, 95, 100}}
    /\ twin = NoInst
    /\ phase = "idle"
    /\ clock = 0
    /\ obs = [op |-> "none", n |-> 0]

\* predictor.predict(context, state): what it writes to state.current_intent and
\* state.intent_confidence
IntentFrame ==
    /\ unit = "intent"
    /\ obs.n < MaxIntentFrames
    /\ \E x \in IntentFrames, vad \in BOOLEAN :
       \E r \in {IntentPredictorPredict(inst, vad, x.is_speech, x.arousal, x.rising,
                                        x.falling, x.tempo, x.pause_duration)} :
          /\ inst' = r.self
          /\ obs' = [op |-> "predict", n |-> obs.n + 1, out |-> r.out, vad |-> vad,
                      frame |-> x, before |-> inst.intent_scores]
    /\ UNCHANGED pipevars
    /\ UNCHANGED <<unit, twin, phase, clock>>

NextIntent == IntentFrame

SpecIntent == InitIntent /\ [][NextIntent]_vars

----------------------------------------------------------------------------
(* An EarlyIntentPredictor follows the frames of a stream: before each call the    *)
(* predictors registered ahead of it have written the intent, the confidence and   *)
(* the timing of the frame into the state.                                         *)

MaxEarlyFrames == 3

\* what the state holds when predict is called, and the time since the last frame
EarlyInputs ==
    [current_intent : {"query", "unknown"}, intent_confidence : {30, 80},
     timing : {Timing(FALSE, FALSE, 100, 0), Timing(TRUE, TRUE, 0, 800)},
     step : {20, 2100}]

InitEarly ==
    /\ PipeIdle
    /\ unit = "early"
    /\ inst \in Constructed("early_intent")
    /\ twin = NoInst
    /\ phase = "idle"
    /\ clock = 0
    /\ obs = [op |-> "none", n |-> 0, state |-> PipelineState]

\* predictor.predict(context, state) on the next frame
EarlyFrame ==
    /\ unit = "early"
    /\ obs.n < MaxEarlyFrames
    /\ \E x \in EarlyInputs :
       \E given \in {[obs.state EXCEPT !.current_intent = x.current_intent,
                                       !.intent_confidence = x.intent_confidence,
                                       !.timing = x.timing]} :
       \E r \in {predict_early_intent(inst, clock + x.step, given)} :
          /\ inst' = r.self
          /\ clock' = clock + x.step
          /\ obs' = [op |-> "predict", n |-> obs.n + 1, given |-> given, before |-> inst,
                      state |-> r.state]
    /\ UNCHANGED pipevars
    /\ UNCHANGED <<unit, twin, phase>>

\* predictor.reset()
EarlyReset ==
    /\ unit = "early"
    /\ obs.op = "predict"
    /\ inst' = EarlyIntentPredictorReset(inst)
    /\ obs' = [op |-> "reset", n |-> obs.n, state |-> obs.state]
    /\ UNCHANGED pipevars
    /\ UNCHANGED <<unit, twin, phase, clock>>

NextEarly == EarlyFrame \/ EarlyReset

SpecEarly == InitEarly /\ [][NextEarly]_vars

----------------------------------------------------------------------------
(* An IntentPredictor over a stream that falls silent: frames of speech, then an   *)
(* unbroken run of frames without speech.                                          *)

MaxDecaySpeech == 3
MaxSilentRun == 16

\* the frames of speech of the stream
SpokenFrames == {x \in IntentFrames : x.is_speech /\ x.arousal \in {5000, 8000, 2000}}

\* what is kept of a frame's outcome: the output, the best-scoring intent and its
\* share of the total (0 when the total is 0)
Standing(self, out) ==
    LET sc == self.intent_scores
        total == Sum([i \in 1..Len(Intents) |-> sc[Intents[i]]])
        best == best_intent_of(sc)
    IN  [out |-> out, best |-> best, total |-> total, top |-> sc[best],
         share |-> IF total > 0 THEN (sc[best] * 10000) \div total ELSE 0]

InitDecay ==
    /\ PipeIdle
    /\ unit = "decay"
    /\ inst \in {IntentPredictorInit(30, d) : d \in {50, 75}}
    /\ twin = NoInst
    /\ phase = "idle"
    /\ clock = 0
    /\ obs = [op |-> "none", n |-> 0, k |-> 0,
              now |-> Standing(inst, [current_intent |-> "unknown", intent_confidence |-> 0]),
              at_speech |-> Standing(inst, [current_intent |-> "unknown",
                                            intent_confidence |-> 0])]

\* predictor.predict on a frame the VAD reports as speech
SpeechFrame ==
    /\ unit = "decay"
    /\ obs.op # "silent"
    /\ obs.n < MaxDecaySpeech
    /\ \E x \in SpokenFrames :
       \E r \in {IntentPredictorPredict(inst, TRUE, TRUE, x.arousal, x.rising, x.falling,
                                        x.tempo, x.pause_duration)} :
          /\ inst' = r.self
          /\ obs' = [op |-> "speech", n |-> obs.n + 1, k |-> 0,
                      now |-> Standing(r.self, r.out), at_speech |-> Standing(r.self, r.out)]
    /\ UNCHANGED pipevars
    /\ UNCHANGED <<unit, twin, phase, clock>>

\* predictor.predict on a frame without speech: the VAD reports none, or there is no
\* VAD result
SilentFrame ==
    /\ unit = "decay"
    /\ obs.k < MaxSilentRun
    /\ \E vad \in BOOLEAN :
       \E r \in {IntentPredictorPredict(inst, vad, FALSE, 5000, FALSE, FALSE, 0, 0)} :
          /\ inst' = r.self
          /\ obs' = [obs EXCEPT !.op = "silent", !.k = @ + 1, !.now = Standing(r.self, r.out)]
    /\ UNCHANGED pipevars
    /\ UNCHANGED <<unit, twin, phase, clock>>

NextDecay == SpeechFrame \/ SilentFrame

\* the stream goes on: frames keep arriving
SpecDecay == InitDecay /\ [][NextDecay]_vars /\ WF_vars(SilentFrame)

----------------------------------------------------------------------------
(* Properties *)

\* a step that is a call of process_frame (by a caller or by a driver)
FrameStep == nframes' # nframes /\ last'.op = "process_frame"

Stamped(st, n, frame) ==
    /\ st.analysis_results[n] # NoResult
    /\ st.analysis_results[n].frame_id = frame.frame_id

\* C1: every call process_frame(frame) returns a packet if and only if
\* frame.timestamp_ms - last_emit_ms >= emit_interval_ms and the confidence the
\* frame's predictors left is >= min_confidence_to_emit; on emit last_emit_ms
\* becomes frame.timestamp_ms, on a frame that emits nothing it is unchanged.
C1_EmitIffGate ==
    [][FrameStep =>
        LET f == last'.frame
            emitted == last'.outcome = "packet"
            due == /\ f.timestamp_ms - pipeline.last_emit_ms >= pipeline.config.emit_interval_ms
                   /\ pipeline'.state.intent_confidence >= pipeline.config.min_confidence_to_emit
        IN  /\ emitted <=> due
            /\ emitted => pipeline'.last_emit_ms = f.timestamp_ms
            /\ ~emitted => pipeline'.last_emit_ms = pipeline.last_emit_ms]_vars

\* C4: on every frame whose emit condition holds each registered callback is
\* invoked exactly once, in registration order, and the packet is returned after
\* them; on every other frame no callback is invoked.
C4_CallbacksOnEmit ==
    last.op = "process_frame" =>
        /\ last.gate => last.invoked = last.registered
        /\ ~last.gate => last.invoked = <<>>

\* what a process_frame call does around a failing component, whatever the
\* failing predictor had already written
FaultsContained ==
    LET f == last'.frame
        st == pipeline.state
        st2 == pipeline'.state
        due == /\ f.timestamp_ms - pipeline.last_emit_ms >= pipeline.config.emit_interval_ms
               /\ st2.intent_confidence >= pipeline.config.min_confidence_to_emit
    IN  \* the component's exception does not escape: without an emit the call returns None
        /\ ~due => last'.outcome = "none"
        \* the emit check is performed all the same
        /\ due <=> pipeline'.last_emit_ms = f.timestamp_ms /\ last'.gate
        \* a failing analyzer publishes nothing: its previous result stays
        /\ \A n \in last'.a_raised : st2.analysis_results[n] = st.analysis_results[n]
        \* every other registered analyzer ran on this frame
        /\ \A n \in Registered(pipeline.analyzers) \ last'.a_raised : Stamped(st2, n, f)
        \* the timing predictor ran on this frame unless it is the one that failed
        /\ "timing" \in Registered(pipeline.predictors) \ last'.p_raised =>
               st2.timing = Timing(FALSE, FALSE, IF IsSpeech(st2) THEN 100 ELSE 0, 0)
        \* a failing timing predictor leaves the Timing in place
        /\ "timing" \in last'.p_raised => st2.timing = st.timing

\* C5 (as stated): a raising analyzer or predictor does not escape process_frame,
\* the remaining components and the emit check still run, and the failing
\* component contributes nothing: its previous result and the prior state stay.
C5_FaultContributesNothing ==
    [][FrameStep =>
        /\ FaultsContained
        /\ "intent" \in last'.p_raised =>
               /\ pipeline'.state.current_intent = pipeline.state.current_intent
               /\ pipeline'.state.intent_confidence = pipeline.state.intent_confidence
               /\ pipeline'.state.emotion = pipeline.state.emotion]_vars

\* C5 (amended): as above, but a failing predictor is not rolled back: the writes
\* it made to the state before it raised stay, the writes after that point are
\* not made.
C5_FaultIsolation ==
    [][FrameStep =>
        /\ FaultsContained
        /\ "intent" \in last'.p_raised \ last'.p_partial =>
               /\ pipeline'.state.current_intent = pipeline.state.current_intent
               /\ pipeline'.state.intent_confidence = pipeline.state.intent_confidence
        /\ "intent" \in last'.p_partial =>
               /\ pipeline'.state.current_intent = MidWrite[1]
               /\ pipeline'.state.intent_confidence = MidWrite[2]
        /\ "intent" \in last'.p_raised =>
               pipeline'.state.emotion = pipeline.state.emotion]_vars

\* a frame on which the first analyzer raised and the first predictor raised half
\* way: the old vad result is still published, the emotion analyzer and the timing
\* predictor ran, and the call returned None
C5_Witness ==
    /\ last.op = "process_frame"
    /\ last.a_raised = {"vad"}
    /\ last.p_partial = {"intent"}
    /\ "timing" \in Registered(pipeline.predictors)
    /\ pipeline.state.analysis_results["vad"] # NoResult
    /\ ~Stamped(pipeline.state, "vad", last.frame)
    /\ Stamped(pipeline.state, "emotion", last.frame)
    /\ pipeline.state.current_intent = MidWrite[1]
    /\ last.outcome = "none"

\* C7 (as stated): in run, run_sync and run_async, once stop() has been called no
\* further frame is pulled from the source.
C7_NoPullAfterStop ==
    driver \in Generators => run.pulled_after_stop = 0

\* C7 (amended): the flag is checked on each frame after it is pulled from the
\* source and before it is processed: once stop() has been called at most one
\* further frame is pulled, and no further frame is processed.
C7_StopCheckedAfterPull ==
    driver \in Generators =>
        /\ run.pulled_after_stop <= 1
        /\ run.processed_after_stop = 0
        /\ run.pulled_after_stop = 1 => run.ended = "stopped"

\* a run that stop() ended: one frame was pulled after the stop and dropped
C7_Witness ==
    /\ driver \in Generators
    /\ run.stop_seen
    /\ run.pulled_after_stop = 1
    /\ run.ended = "stopped"
    /\ source.pos >= 2

\* C8: a stop() made while a frame of a run is in progress does not abort the
\* frame: all analyzers and predictors run, the emit check is made, the callbacks
\* of an emitting frame all run and its packet is delivered; no later frame is
\* processed.
C8_StopCompletesFrame ==
    /\ driver \in Generators => run.processed_after_stop = 0
    /\ (driver \in Generators /\ last.op = "process_frame" /\ last.stop_during) =>
           /\ \A n \in Registered(pipeline.analyzers) : Stamped(pipeline.state, n, last.frame)
           /\ last.gate =>
                  /\ last.invoked = last.registered
                  /\ last.outcome = "packet"
                  /\ delivered # <<>>
                  /\ delivered[Len(delivered)].frame_id = last.frame.frame_id

\* C9: when a driver's run has ended (source exhausted, stop() request, exception
\* out of frame processing) the source has been closed and the running flag is false.
C9_SourceClosed ==
    (pc = "idle" /\ run.ended # "none") => source.closed /\ ~pipeline.running

\* C10: after reset() the frame buffer is empty, the state is that of a new
\* PipelineState and the emit clock is 0.
C10_ResetClears ==
    last.op = "reset" =>
        /\ pipeline.buffer = <<>>
        /\ pipeline.last_emit_ms = 0
        /\ pipeline.state.current_intent = "unknown"
        /\ pipeline.state.intent_confidence = 0
        /\ pipeline.state.emotion = [arousal |-> 50, valence |-> 50]
        /\ pipeline.state.timing =
               [user_paused |-> FALSE, interrupt_safe |-> FALSE,
                speech_likelihood |-> 100, silence_duration_ms |-> 0]
        /\ pipeline.state.speech_active = FALSE
        /\ Published(pipeline.state) = {}

\* a reset of a pipeline that had frames buffered, a changed state and an
\* advanced emit clock
C10_Witness ==
    /\ last.op = "reset"
    /\ last.dirty

\* the last n elements of a sequence
Suffix(seq, n) == SubSeq(seq, Len(seq) - n + 1, Len(seq))

\* C15: after every FrameBuffer.push (timestamps non-decreasing) the buffer holds at
\* most max_frames frames, spans at most max_duration_ms, is a contiguous suffix of
\* the frames pushed so far, in push order, and retains the frame just pushed.
C15_BufferWindow ==
    (unit = "buffer" /\ obs.op = "push") =>
        LET fs == inst.frames
            n == Len(fs)
        IN  /\ n <= inst.max_frames
            /\ n >= 1
            /\ fs[n] = obs.pushed[Len(obs.pushed)]
            /\ fs[n].timestamp_ms - fs[1].timestamp_ms <= inst.max_duration_ms
            /\ fs = Suffix(obs.pushed, n)

\* a push that evicted by count and by span at once: three frames pushed into a
\* buffer of two, the newest 40 ms after the one before it, one frame left
C15_Witness ==
    /\ unit = "buffer"
    /\ obs.op = "push"
    /\ Len(obs.pushed) >= 3
    /\ inst.max_frames = 2
    /\ inst.max_duration_ms = 20
    /\ Len(inst.frames) = 1
    /\ inst.frames[1].frame_id = Len(obs.pushed) - 1

\* C14: on every emit the state is turned into an IntentPacket that carries the
\* state's intent, confidence, language, target_language, emotion and timing, the
\* frame's frame_id and timestamp_ms and the analyzer payloads, and that packet is
\* returned.
C14_EmitSnapshotsState ==
    (last.op = "process_frame" /\ last.gate) =>
        LET st == pipeline.state
            built == to_packet(st, last.frame.frame_id, last.frame.timestamp_ms)
        IN  /\ built.ok
            /\ last.outcome = "packet"
            /\ built.packet.intent = st.current_intent
            /\ built.packet.confidence = st.intent_confidence
            /\ built.packet.language = st.language
            /\ built.packet.target_language = st.target_language
            /\ built.packet.emotion = st.emotion
            /\ built.packet.timing = st.timing
            /\ built.packet.frame_id = last.frame.frame_id
            /\ built.packet.timestamp_ms = last.frame.timestamp_ms
            /\ DOMAIN built.packet.analysis_results = Published(st)

\* C16: every provided source yields frames whose frame_id starts at 0 and goes up
\* by one, each with timestamp_ms = frame_id * frame_duration_ms: a next() on a
\* source that has a frame of audio left yields that frame.
C16_SourceFrames ==
    (unit = "source" /\ obs.op = "next") =>
        /\ obs.outcome # "AttributeError"
        /\ obs.outcome = "frame" =>
               /\ obs.frame.frame_id = obs.yielded - 1
               /\ obs.frame.timestamp_ms = obs.frame.frame_id * inst.frame_duration_ms

\* a frame the timing predictor has just processed
TimingFrame == unit = "timing" /\ obs.op = "predict"

\* C17: on every frame the interrupt_safe that TimingPredictor writes is true iff the
\* prosody is not rising, speech_likelihood <= 0.7, user_paused, and one of: silence
\* >= turn_end_threshold_ms; falling and silence >= pause_threshold_ms;
\* intent_confidence >= interrupt_confidence.
C17_InterruptSafeIff ==
    TimingFrame =>
        LET t == obs.timing
            sd == t.silence_duration_ms
        IN  t.interrupt_safe <=>
                /\ ~is_rising(obs.prosody)
                /\ t.speech_likelihood <= 70
                /\ t.user_paused
                /\ \/ sd >= inst.turn_end_threshold_ms
                   \/ is_falling(obs.prosody) /\ sd >= inst.pause_threshold_ms
                   \/ obs.confidence >= inst.interrupt_confidence

\* a frame after speech on which an interrupt is safe because of the falling
\* intonation alone, the silence being shorter than the turn end
C17_Witness ==
    /\ TimingFrame
    /\ obs.spoken
    /\ obs.timing.interrupt_safe
    /\ is_falling(obs.prosody)
    /\ obs.timing.silence_duration_ms < inst.turn_end_threshold_ms
    /\ obs.confidence < inst.interrupt_confidence

\* two consecutive non-speech frames after speech has ended
SilencePair == TimingFrame /\ obs.n >= 2 /\ obs.spoken /\ ~obs.is_speech /\ ~obs.prev_speech

\* C18 (as stated): after speech ends, across consecutive non-speech frames the
\* speech_likelihood does not increase, whatever the prosody result is.
C18_LikelihoodNeverRises ==
    SilencePair => obs.timing.speech_likelihood <= obs.prev_timing.speech_likelihood

\* C18 (amended): it does not increase on a frame whose prosody is not rising; on a
\* frame with rising intonation it is the decayed value plus 0.1, capped at 1, so it
\* rises by at most 0.1.
C18_LikelihoodDecays ==
    SilencePair =>
        /\ ~is_rising(obs.prosody) =>
               obs.timing.speech_likelihood <= obs.prev_timing.speech_likelihood
        /\ is_rising(obs.prosody) =>
               /\ obs.timing.speech_likelihood <= obs.prev_timing.speech_likelihood + 10
               /\ obs.timing.speech_likelihood <= 100

\* a silence after speech in which the likelihood went down on a flat frame
C18_Witness ==
    /\ SilencePair
    /\ obs.prosody = "flat"
    /\ obs.timing.speech_likelihood < obs.prev_timing.speech_likelihood
    /\ obs.timing.speech_likelihood > 0

\* C19: within a run of non-speech frames user_paused is false while
\* silence_duration_ms is below pause_threshold_ms, true from the first frame that
\* reaches it, and stays true until the next speech frame, where it is false again
\* with silence_duration_ms = 0.
C19_PausedAtThreshold ==
    TimingFrame =>
        LET t == obs.timing
        IN  /\ t.user_paused <=> t.silence_duration_ms >= inst.pause_threshold_ms
            /\ obs.is_speech => ~t.user_paused /\ t.silence_duration_ms = 0
            /\ (~obs.is_speech /\ obs.n >= 2 /\ ~obs.prev_speech) =>
                   /\ t.silence_duration_ms >= obs.prev_timing.silence_duration_ms
                   /\ obs.prev_timing.user_paused => t.user_paused

\* the frame of a silence on which the pause threshold is reached exactly
C19_Witness ==
    /\ TimingFrame
    /\ ~obs.is_speech
    /\ obs.n >= 2
    /\ ~obs.prev_speech
    /\ ~obs.prev_timing.user_paused
    /\ obs.timing.user_paused
    /\ obs.timing.silence_duration_ms = inst.pause_threshold_ms

\* C20: on each frame the turn-taking state is the first matching row of:
\* is_speech -> user_speaking; silence < min_turn_gap_ms -> user_speaking; silence <
\* safe_interrupt_gap_ms -> user_pausing; falling or silence >= safe_interrupt_gap_ms
\* -> turn_yielded; silence > max_wait_ms -> system_can_speak; else user_pausing,
\* where silence is the time since the last speech frame (0 if no speech yet).
C20_TurnStateTable ==
    (unit = "turn_taking" /\ obs.op = "predict") =>
        LET silence == IF obs.spoke THEN clock - obs.spoke_at ELSE 0
            row == IF obs.is_speech THEN "user_speaking"
                   ELSE IF silence < inst.min_turn_gap_ms THEN "user_speaking"
                   ELSE IF silence < inst.safe_interrupt_gap_ms THEN "user_pausing"
                   ELSE IF is_falling(obs.prosody) \/ silence >= inst.safe_interrupt_gap_ms
                        THEN "turn_yielded"
                   ELSE IF silence > inst.max_wait_ms THEN "system_can_speak"
                   ELSE "user_pausing"
        IN  obs.state = row

\* C12: after reset(), a component (VAD, prosody, emotion, language, intent, timing,
\* early intent, turn-taking) reports on every frame what a newly constructed instance
\* reports on the same frame, and is left in the state the new instance is left in
C12_ResetEqualsFresh ==
    phase = "replay" => (obs.out = obs.twin_out /\ inst = twin)

\* a component whose attributes had moved from their initial values was reset and has
\* since reported on a frame
C12_Witness ==
    /\ phase = "replay"
    /\ obs.dirty
    /\ obs.m >= 1
    /\ obs.out # NoOut
    /\ obs.out = obs.twin_out

\* C11: after Pipeline.reset(), each process_frame call does what the same call does on
\* a newly built pipeline fed the same frames: it returns None on the same frames and
\* emits an equal packet on the same frames, whatever was processed before the reset
C11_ReplayAfterReset ==
    (unit = "pipeline" /\ phase = "replay") => obs.out = obs.twin_out

InUnit(x) == 0 <= x /\ x <= 100

TurnSilence == obs.signal.silence_duration

\* C21: on each frame (can_interrupt, interrupt_reason) is the first match of: silence
\* below the minimum gap -> (false, user_still_speaking); rising -> (false,
\* question_forming); silence below the safe gap and not falling -> (false,
\* pause_too_short); falling -> (true, falling_intonation_complete); silence at or above
\* the safe gap -> (true, long_silence); confidence above 0.7 -> (true,
\* high_intent_confidence); else (false, pause_too_short)
C21_InterruptRules ==
    (unit = "turn_taking" /\ obs.op = "predict") =>
        <<obs.signal.can_interrupt, obs.signal.interrupt_reason>> =
            (IF TurnSilence < inst.min_turn_gap_ms THEN <<FALSE, "user_still_speaking">>
             ELSE IF is_rising(obs.prosody) THEN <<FALSE, "question_forming">>
             ELSE IF TurnSilence < inst.safe_interrupt_gap_ms /\ ~is_falling(obs.prosody)
                  THEN <<FALSE, "pause_too_short">>
             ELSE IF is_falling(obs.prosody) /\ TurnSilence >= inst.min_turn_gap_ms
                  THEN <<TRUE, "falling_intonation_complete">>
             ELSE IF TurnSilence >= inst.safe_interrupt_gap_ms THEN <<TRUE, "long_silence">>
             ELSE IF obs.confidence > 70 THEN <<TRUE, "high_intent_confidence">>
             ELSE <<FALSE, "pause_too_short">>)

\* C22: with the default parameters, after speech followed by unbroken silence, on the
\* frames whose silence exceeds max_wait_ms the published turn state is system_can_speak,
\* suggested_wait_ms is 0 and overlap_probability is 0
C22_SystemCanSpeak ==
    (unit = "timeline" /\ phase = "silence" /\ obs.silence_ms > inst.max_wait_ms) =>
        /\ obs.signal.state = "system_can_speak"
        /\ obs.signal.suggested_wait_ms = 0
        /\ obs.signal.overlap_probability = 0

StreamOver == unit = "stream" /\ obs.ended # "none"

\* C24: for the stream tone (300 ms), silence (500 ms), tone (200 ms) processed with
\* emit_interval 100 ms, some packet emitted during the silence has
\* timing.interrupt_safe = true and some packet emitted during the second tone has
\* timing.interrupt_safe = false; and no packet emitted on a frame the VAD reports as
\* speech has interrupt_safe = true.
C24_InterruptSafeInSilence ==
    /\ (StreamOver /\ obs.stream = <<300, 500, 200>>
           /\ pipeline.config.emit_interval_ms = 100
           /\ pipeline.predictors = <<"intent", "timing">>) =>
            obs.safe_in_silence /\ obs.unsafe_in_speech2
    /\ (unit = "stream" /\ obs.out.ret = "packet" /\ obs.out.is_speech) =>
            ~obs.out.packet.timing.interrupt_safe

\* C25: for a stream of pure silence processed by a pipeline holding only a VADAnalyzer
\* and a TimingPredictor, packets are emitted and the last one has
\* timing.speech_likelihood < 0.3; with 500 ms of silence and emit_interval 100 ms the
\* last packet also has timing.user_paused and timing.silence_duration_ms >= 300.
C25_SilencePackets ==
    (StreamOver /\ obs.stream = <<0, 500, 0>> /\ pipeline.predictors = <<"timing">>) =>
        /\ obs.packets > 0
        /\ obs.last_packet.timing.speech_likelihood < 30
        /\ pipeline.config.emit_interval_ms = 100 =>
               /\ obs.last_packet.timing.user_paused
               /\ obs.last_packet.timing.silence_duration_ms >= 300

\* C26: no analyzer changes a PipelineState field during analyze; an analyzer's output
\* reaches the state only as the entry stored under the analyzer's name; and
\* state.emotion and state.language change only when the IntentPredictor copies them
\* from the emotion and language results, so that without an IntentPredictor they keep
\* their defaults.
C26_AnalyzersPublishOnly ==
    [][(unit = "publish" /\ obs'.n = obs.n + 1) =>
        LET st == pipeline.state
            st2 == pipeline'.state
            with_intent == "intent" \in Registered(pipeline.predictors)
        IN  /\ \A n \in AnalyzerNames :
                   st2.analysis_results[n] # st.analysis_results[n] =>
                       /\ n \in Registered(pipeline.analyzers)
                       /\ Stamped(st2, n, SourceFrame(obs.n))
            /\ pipeline.predictors = <<>> =>
                   st2 = [st EXCEPT !.analysis_results = st2.analysis_results]
            /\ st2.emotion # st.emotion =>
                   /\ with_intent
                   /\ st2.analysis_results["emotion"] # NoResult
                   /\ st2.emotion = Emotion(st2.analysis_results["emotion"].data.arousal,
                                            st2.analysis_results["emotion"].data.valence)
            /\ st2.language # st.language =>
                   /\ with_intent
                   /\ st2.analysis_results["language"] # NoResult
                   /\ st2.language = st2.analysis_results["language"].data.language
            /\ ~with_intent =>
                   /\ st2.emotion = PipelineState.emotion
                   /\ st2.language = PipelineState.language]_vars

\* a pipeline with all four analyzers and an IntentPredictor after a frame: the
\* language and the emotion in the state are those of the results, no longer the defaults
C26_Witness ==
    /\ unit = "publish"
    /\ obs.n >= 1
    /\ "intent" \in Registered(pipeline.predictors)
    /\ Len(pipeline.analyzers) = 4
    /\ pipeline.state.language = "en"
    /\ pipeline.state.emotion # PipelineState.emotion
    /\ pipeline.state.emotion = Emotion(pipeline.state.analysis_results["emotion"].data.arousal,
                                        pipeline.state.analysis_results["emotion"].data.valence)

\* C27: for a, v in {0, 0.25, 0.5, 0.75, 1}, Emotion(a, v).quadrant is given by the 0.5
\* thresholds: arousal >= 0.5 is tense and below is calm, valence >= 0.5 is positive and
\* below is negative.
C27_QuadrantTable ==
    (unit = "data" /\ obs.op = "quadrant"
        /\ obs.arousal \in {0, 25, 50, 75, 100} /\ obs.valence \in {0, 25, 50, 75, 100}) =>
        /\ (obs.arousal >= 50) <=> obs.quadrant \in {"tense_positive", "tense_negative"}
        /\ (obs.arousal < 50) <=> obs.quadrant \in {"calm_positive", "calm_negative"}
        /\ (obs.valence >= 50) <=> obs.quadrant \in {"tense_positive", "calm_positive"}
        /\ (obs.valence < 50) <=> obs.quadrant \in {"tense_negative", "calm_negative"}

\* the quadrant of Emotion(0.5, 0.25) was read: both thresholds are met exactly or missed
C27_Witness ==
    /\ unit = "data"
    /\ obs.op = "quadrant"
    /\ obs.arousal = 50
    /\ obs.valence = 25
    /\ obs.quadrant = "tense_negative"

\* C28: a packet is actionable exactly when its confidence is above 0.6 and its intent is
\* not unknown; a confidence of exactly 0.6, or the intent unknown at any confidence, is
\* not actionable.
C28_Actionable ==
    (unit = "data" /\ obs.op = "is_actionable") =>
        /\ obs.is_actionable <=> (obs.packet.confidence > 60 /\ obs.packet.intent # "unknown")
        /\ obs.packet.confidence = 60 => ~obs.is_actionable
        /\ obs.packet.intent = "unknown" => ~obs.is_actionable

\* a packet with a known intent and a confidence of exactly 0.6 was read as not actionable
C28_Witness ==
    /\ unit = "data"
    /\ obs.op = "is_actionable"
    /\ obs.packet.intent = "query"
    /\ obs.packet.confidence = 60
    /\ ~obs.is_actionable

\* C29: the VAD hangover.  On a raw-speech frame (energy above the threshold and
\* zero-crossing rate below 0.5) hangover_counter is set to hangover_frames and
\* is_speech is true; on any other frame the counter is decremented while it is
\* positive; is_speech becomes false only when the counter has reached 0.  Always
\* 0 <= hangover_counter <= hangover_frames, and is_speech = false implies
\* hangover_counter = 0.
C29_Hangover ==
    unit = "vad" =>
        /\ 0 <= inst.hangover_counter
        /\ inst.hangover_counter <= inst.hangover_frames
        /\ ~inst.speech_active => inst.hangover_counter = 0
        /\ obs.op = "analyze" =>
               LET raw == obs.out.energy_db > obs.out.threshold_db /\ obs.zcr < 50
               IN  /\ obs.out.is_speech = inst.speech_active
                   /\ raw => inst.hangover_counter = inst.hangover_frames /\ obs.out.is_speech
                   /\ ~raw => inst.hangover_counter = Max(0, obs.before.hangover_counter - 1)
                   /\ (~raw /\ obs.before.hangover_counter > 0) =>
                          obs.out.is_speech = obs.before.speech_active
                   /\ (obs.before.speech_active /\ ~obs.out.is_speech) =>
                          obs.before.hangover_counter = 0

\* speech ends: with hangover_frames = 5 the analyzer was still reporting speech with
\* its counter at 0, and on one more frame of silence is_speech turned false
C29_Witness ==
    /\ unit = "vad"
    /\ obs.op = "analyze"
    /\ inst.hangover_frames = 5
    /\ obs.before.speech_active
    /\ obs.before.hangover_counter = 0
    /\ ~obs.out.is_speech

\* the sum of the scores, and the highest of them (ten-thousandths)
ScoreTotal == Sum([i \in 1..Len(Intents) |-> inst.intent_scores[Intents[i]]])
ScoreTop == CHOOSE t \in {inst.intent_scores[i] : i \in IntentSet} :
                \A i \in IntentSet : inst.intent_scores[i] <= t

\* C30: on each frame the IntentPredictor's output follows the selection rule on its
\* score vector: if the scores sum to less than 0.01 it is (unknown, 0); otherwise,
\* with best the highest-scoring intent and share its score over the sum, it is
\* (unknown, min(1, best score) * 0.5) when share < 0.4 and (best, share) when not; the
\* confidence written is always within [0, 1].
C30_SelectionRule ==
    (unit = "intent" /\ obs.op = "predict") =>
        /\ 0 <= obs.out.intent_confidence /\ obs.out.intent_confidence <= 10000
        /\ ScoreTotal < 100 =>
               obs.out.current_intent = "unknown" /\ obs.out.intent_confidence = 0
        /\ (ScoreTotal >= 100 /\ (ScoreTop * 10000) \div ScoreTotal < 4000) =>
               /\ obs.out.current_intent = "unknown"
               /\ obs.out.intent_confidence = Min(10000, ScoreTop) \div 2
        /\ (ScoreTotal >= 100 /\ (ScoreTop * 10000) \div ScoreTotal >= 4000) =>
               /\ inst.intent_scores[obs.out.current_intent] = ScoreTop
               /\ obs.out.intent_confidence = (ScoreTop * 10000) \div ScoreTotal

\* the scores are spread over several intents: the best of them, not unknown itself,
\* holds less than 0.4 of the sum, and the output is unknown at half its raw score
C30_Witness ==
    /\ unit = "intent"
    /\ obs.op = "predict"
    /\ ScoreTotal >= 100
    /\ (ScoreTop * 10000) \div ScoreTotal < 4000
    /\ inst.intent_scores["unknown"] < ScoreTop
    /\ obs.out.current_intent = "unknown"
    /\ obs.out.intent_confidence > 0

\* what a frame adds to the score of intent i, by the rules of the claim
ScoreAdded(i) ==
    LET x == obs.frame
    IN  IF ~(obs.vad /\ x.is_speech) THEN 0
        ELSE CASE i = "command" ->
                      IF x.arousal > 7000 /\ x.falling /\ x.tempo > 4 THEN 1500 ELSE 0
               [] i = "query" ->
                      (IF x.rising THEN 1200 ELSE 0)
                      + (IF 300 < x.pause_duration /\ x.pause_duration < 1000 THEN 500 ELSE 0)
               [] i = "conversation" ->
                      IF 3000 < x.arousal /\ x.arousal < 7000 /\ ~x.rising /\ ~x.falling
                      THEN 800 ELSE 0
               [] i = "unknown" -> 200
               [] OTHER -> 0

\* C31: on every frame the IntentPredictor first multiplies every score by decay_rate;
\* on a frame that is not speech for the VAD (or with no VAD result) no score is
\* increased; on a speech frame the only increases are command += 0.15 when
\* arousal > 0.7, falling and tempo > 4, query += 0.12 when rising, conversation += 0.08
\* when 0.3 < arousal < 0.7 with neither rising nor falling, query += 0.05 when
\* 300 < pause_duration_ms < 1000, and unknown += 0.02 always.
C31_DecayThenScore ==
    (unit = "intent" /\ obs.op = "predict") =>
        \A i \in IntentSet :
            inst.intent_scores[i] = (obs.before[i] * inst.decay_rate) \div 100 + ScoreAdded(i)

\* a speech frame with a rising intonation after a pause, on scores that had built up:
\* the query score is the decayed one plus 0.12, the unknown score the decayed one plus 0.02
C31_Witness ==
    /\ unit = "intent"
    /\ obs.op = "predict"
    /\ inst.decay_rate = 95
    /\ obs.vad /\ obs.frame.is_speech /\ obs.frame.rising
    /\ obs.before["query"] > 0
    /\ inst.intent_scores["query"] = (obs.before["query"] * 95) \div 100 + 1200
    /\ inst.intent_scores["unknown"] = (obs.before["unknown"] * 95) \div 100 + 200
    /\ inst.intent_scores["command"] < obs.before["command"]

\* C32: EarlyIntentPredictor.predict never changes state.current_intent or
\* state.intent_confidence; it reads them and writes only its own entry
\* state.analysis_results["early_intent"].
C32_EarlyIntentReadsOnly ==
    (unit = "early" /\ obs.op = "predict") =>
        /\ obs.state.current_intent = obs.given.current_intent
        /\ obs.state.intent_confidence = obs.given.intent_confidence
        /\ [obs.state EXCEPT !.analysis_results = obs.given.analysis_results] = obs.given
        /\ DOMAIN obs.state.analysis_results =
               DOMAIN obs.given.analysis_results \cup {"early_intent"}
        /\ \A n \in DOMAIN obs.given.analysis_results \ {"early_intent"} :
               obs.state.analysis_results[n] = obs.given.analysis_results[n]
        /\ obs.state.analysis_results["early_intent"].data.leading_intent
               = inst.state.leading_hypothesis

\* the predictor leads with another hypothesis than the intent the state holds, and
\* the state still holds that intent after the call
C32_Witness ==
    /\ unit = "early"
    /\ obs.op = "predict"
    /\ obs.given.current_intent = "unknown"
    /\ obs.state.analysis_results["early_intent"].data.leading_intent = "query"
    /\ obs.state.current_intent = "unknown"
    /\ obs.state.intent_confidence = obs.given.intent_confidence

\* the hypotheses the predictor holds, and the one it leads with
EarlyHypotheses == {inst.state.hypotheses[k] : k \in 1..Len(inst.state.hypotheses)}
EarlyLeaders == {h \in EarlyHypotheses : h.intent = inst.state.leading_hypothesis}

\* C33: on each frame the EarlyIntentPredictor leads with the hypothesis of the
\* greatest stability score; frames_since_change is reset to 0 exactly on the frames
\* where the leader differs from that of the previous frame, and is incremented by 1
\* otherwise; hypothesis_stable is true if and only if
\* frames_since_change >= stability_threshold and leading_confidence > 0.5.
C33_LeaderAndStability ==
    (unit = "early" /\ obs.op = "predict") =>
        /\ \E l \in EarlyLeaders :
               /\ l.confidence = inst.state.leading_confidence
               /\ \A h \in EarlyHypotheses : stability_score(h) <= stability_score(l)
        /\ inst.state.leading_hypothesis # obs.before.state.leading_hypothesis =>
               inst.state.frames_since_change = 0
        /\ inst.state.leading_hypothesis = obs.before.state.leading_hypothesis =>
               inst.state.frames_since_change = obs.before.state.frames_since_change + 1
        /\ inst.state.hypothesis_stable <=>
               (/\ inst.state.frames_since_change >= inst.stability_threshold
                /\ inst.state.leading_confidence > 50)

\* the leader changes after it had stood for some frames: the count falls back to 0
\* and the hypothesis is not stable
C33_Witness ==
    /\ unit = "early"
    /\ obs.op = "predict"
    /\ obs.before.state.frames_since_change > 0
    /\ obs.before.state.hypothesis_stable
    /\ Len(inst.state.hypotheses) = 2
    /\ inst.state.leading_hypothesis # obs.before.state.leading_hypothesis
    /\ inst.state.frames_since_change = 0
    /\ ~inst.state.hypothesis_stable

\* C34: the turn-taking can_interrupt and interrupt_reason depend only on the silence
\* and the rising and falling flags: two runs that differ only in
\* state.intent_confidence publish the same can_interrupt and interrupt_reason on every
\* frame, and the reason high_intent_confidence is never published.
C34_ConfidenceBlind ==
    (unit = "turn_taking" /\ obs.op = "predict") =>
        /\ obs.signal.can_interrupt = obs.twin_signal.can_interrupt
        /\ obs.signal.interrupt_reason = obs.twin_signal.interrupt_reason
        /\ obs.signal.interrupt_reason # "high_intent_confidence"
        /\ obs.twin_signal.interrupt_reason # "high_intent_confidence"

\* a pause too short to interrupt, in a run with a confidence of 0.9 and in one with a
\* confidence of 0: the suggested waits differ, the interrupt decision does not
C34_Witness ==
    /\ unit = "turn_taking"
    /\ obs.op = "predict"
    /\ obs.confidence = 90
    /\ obs.signal.silence_duration >= inst.min_turn_gap_ms
    /\ obs.signal.suggested_wait_ms # obs.twin_signal.suggested_wait_ms
    /\ ~obs.signal.can_interrupt
    /\ obs.signal.interrupt_reason = "pause_too_short"
    /\ obs.twin_signal.interrupt_reason = "pause_too_short"

\* C35: as long as the VAD has never reported speech since the TurnTakingPredictor was
\* constructed or reset, every signal it publishes has state = user_speaking,
\* can_interrupt = false and interrupt_reason = user_still_speaking, however long the
\* stream has been silent.
C35_SilentFromStart ==
    (unit = "turn_taking" /\ obs.op = "predict" /\ ~obs.spoke) =>
        /\ obs.signal.state = "user_speaking"
        /\ ~obs.signal.can_interrupt
        /\ obs.signal.interrupt_reason = "user_still_speaking"

\* a predictor that has heard no speech, on a frame later than its max_wait_ms
C35_Witness ==
    /\ unit = "turn_taking"
    /\ obs.op = "predict"
    /\ ~obs.spoke
    /\ inst.speech_segments = <<>>
    /\ obs.n = MaxUnitFrames
    /\ clock > inst.max_wait_ms
    /\ obs.signal.state = "user_speaking"
    /\ obs.signal.interrupt_reason = "user_still_speaking"

\* C36: with emit_interval_ms > 0, a freshly constructed or reset pipeline emits no
\* packet for any frame with timestamp_ms < emit_interval_ms (never for the frame at
\* timestamp 0); the first packet is emitted on the first frame with
\* timestamp_ms >= emit_interval_ms whose confidence passes min_confidence_to_emit.
\* With a positive interval last_emit_ms is 0 exactly until the first frame that
\* passes the emit check after construction or reset().
C36_FirstEmit ==
    [][(FrameStep /\ pipeline.config.emit_interval_ms > 0 /\ pipeline.last_emit_ms = 0) =>
        LET f == last'.frame
            passes == pipeline'.state.intent_confidence >= pipeline.config.min_confidence_to_emit
        IN  /\ f.timestamp_ms < pipeline.config.emit_interval_ms => last'.outcome # "packet"
            /\ (f.timestamp_ms >= pipeline.config.emit_interval_ms /\ passes) =>
                   last'.outcome = "packet"]_vars

RoundingLoss == 4
ShareRounding(total) == (10000 * 4 * RoundingLoss) \div (total - 4 * RoundingLoss) + 1

Near(a, b, total) == a - b <= ShareRounding(total) /\ b - a <= ShareRounding(total)

\* two intents that the rounded scores do not tell apart
Level(i, j) == i = j \/ inst.intent_scores[i] = inst.intent_scores[j]

Faded == obs.now.out = [current_intent |-> "unknown", intent_confidence |-> 0]

\* the run of frames without speech ends in (unknown, 0.0), and the output stays so
\* on every further frame without speech
FadesOut ==
    /\ <>[](unit = "decay" => (obs.op # "speech" /\ Faded))
    /\ [][(unit = "decay" /\ obs.op = "silent" /\ Faded /\ obs'.op = "silent") => Faded']_vars

\* C39 as stated: during an unbroken run of non-speech frames (decay_rate < 1) the
\* IntentPredictor's output eventually becomes (unknown, 0.0) and stays so until the
\* next speech frame; until the score total drops below 0.01 the output intent and
\* confidence stay what they were at the last speech frame (the confidence does not
\* decay).
C39_OutputHeld ==
    /\ FadesOut
    /\ [](( unit = "decay" /\ obs.op = "silent" /\ obs.now.total >= 100) =>
            /\ Level(obs.now.out.current_intent, obs.at_speech.out.current_intent)
            /\ Near(obs.now.out.intent_confidence, obs.at_speech.out.intent_confidence,
                    obs.now.total))

\* C39, amended: the output eventually becomes (unknown, 0.0) and stays so until the
\* next speech frame; until the score total drops below 0.01 the best-scoring intent
\* and its share of the total stay what they were at the last speech frame, up to
\* the rounding of the arithmetic; the output is (best, share) while the share is at least 0.4, and when the
\* share is below 0.4 it is (unknown, 0.5 * min(1, best score)), a confidence that
\* shrinks with the best score on every frame without speech.
C39_ShareHeld ==
    /\ FadesOut
    /\ [](( unit = "decay" /\ obs.op = "silent" /\ obs.now.total >= 100) =>
            /\ Level(obs.now.best, obs.at_speech.best)
            /\ Near(obs.now.share, obs.at_speech.share, obs.now.total)
            /\ obs.now.share >= 4000 =>
                   obs.now.out = [current_intent |-> obs.now.best,
                                  intent_confidence |-> obs.now.share]
            /\ obs.now.share < 4000 =>
                   /\ obs.now.out = [current_intent |-> "unknown",
                                     intent_confidence |-> Min(10000, obs.now.top) \div 2]
                   /\ obs.now.top < obs.at_speech.top
                   /\ (obs.at_speech.share < 4000 /\ obs.at_speech.top <= 10000) =>
                          obs.now.out.intent_confidence < obs.at_speech.out.intent_confidence)

\* three frames of speech left no intent with a share of 0.4; two silent frames later
\* the total is still above 0.01 and the confidence of unknown has shrunk
C39_Witness ==
    /\ unit = "decay"
    /\ obs.op = "silent"
    /\ obs.k = 2
    /\ obs.now.total >= 100
    /\ obs.at_speech.share < 4000
    /\ obs.at_speech.out.current_intent = "unknown"
    /\ obs.now.out.current_intent = "unknown"
    /\ obs.now.out.intent_confidence > 0
    /\ ~Near(obs.now.out.intent_confidence, obs.at_speech.out.intent_confidence, obs.now.total)


====
